---------------------------- MODULE Spec2Model ----------------------------
(***************************************************************************)
(* A model of lilac's clustering pipeline (src/lilac/data/clustering.py).  *)
(*                                                                         *)
(* Spec         cluster_impl: repeated runs of the five-stage pipeline on  *)
(*              one dataset and one cluster output sub-path, with stage    *)
(*              failures and the labeler's retry loop inside the titling   *)
(*              stages.                                                    *)
(* LabelerSpec  one call of summarize_request / generate_category: the     *)
(*              tenacity retry loop around the text-generation request.    *)
(***************************************************************************)
EXTENDS Integers, Sequences, FiniteSets, TLC

VARIABLES
  fields,          \* dataset: stage-target fields present under the cluster output sub-path
  schema,          \* cluster_impl: the data_schema read once at the start of the run
  args,            \* cluster_impl: the arguments of the current (or last) run
  pc,              \* cluster_impl: "idle" | "gate" | "stage" | "call" | "finish"
  cur,             \* cluster_impl: the stage the run is at (1..5)
  trace,           \* history: the stage events of the current run, in order
  sawTarget,       \* history: stages whose target was in the dataset when their gate ran
  progress,        \* rows (or groups) the running stage has produced so far
  jobs,            \* titling stage: the per-group tasks of the pool and their labeler calls
  error,           \* how the current (or last) run ended: "none" | "config" | "stage" | "labeler"
  task_completed,  \* task_manager.set_completed(task_id) was called by this run
  prev,            \* history: how the run before the current one went
  attempts,        \* request_with_retries: requests issued by the current labeler call
  lastOutcome,     \* request_with_retries: outcome of the latest request
  raised,          \* what the latest labeler call raised to its caller ("none" if nothing)
  labeler,         \* LabelerSpec: which labeler is being called
  lpc,             \* LabelerSpec: "ready" | "calling" | "waiting" | "returned" | "raised"
  ranked_docs,     \* LabelerSpec: the ranked documents the labeler was given
  request,         \* LabelerSpec: the documents placed in the request's user content
  rows,            \* ClusterSpec: the items compute_clusters reads, in order
  remote,          \* ClusterSpec: the remote argument of _hdbscan_cluster
  cpc,             \* ClusterSpec: compute_clusters: "running" | "done" | "failed"
  rowsOut,         \* ClusterSpec: the items compute_clusters has yielded
  buf,             \* ClusterSpec: bridge: dense outputs fetched and not yet placed
  docsIter,        \* ClusterSpec: what is left in the docs iterator
  gpc,             \* ClusterSpec: _hdbscan_cluster: where the generator is suspended
  gout,            \* ClusterSpec: the list the generator is yielding from
  gi,              \* ClusterSpec: how many items of gout it has yielded
  response,        \* ClusterSpec: the clusters list of the remote response
  yielded,         \* ClusterSpec: everything the generator has yielded, in order
  localSteps,      \* ClusterSpec: the local steps the generator has performed
  items,           \* TitlesSpec: the items _compute_titles reads, sorted by id
  tasks,           \* TitlesSpec: the per-group tasks handed to the worker pool
  titles,          \* TitlesSpec: the titles _compute_titles has yielded
  calls,           \* TitlesSpec: the groups topic_fn was invoked for, in order
  tpc,             \* TitlesSpec: _compute_titles: "running" | "done" | "failed"
  catRows,         \* CategorySpec: the items compute_category_clusters reads, in order
  catRemote,       \* CategorySpec: the remote argument of _hdbscan_cluster
  catDense,        \* CategorySpec: the cluster items _hdbscan_cluster yields
  catOut,          \* CategorySpec: the items compute_category_clusters has yielded
  catpc,           \* CategorySpec: "start" | "emitting" | "done" | "failed"
  input_path,      \* OutputPathSpec: the normalized input path (<<>> for a function)
  output_path,     \* OutputPathSpec: the output_path argument (<<>> for None)
  cluster_output_path,  \* OutputPathSpec: the sub-path the run writes under
  wpc,             \* OutputPathSpec: 0 before line 268, k at the gate of stage k, 6 at the end
  written,         \* OutputPathSpec: the output_path of every map/transform call made
  twinArgs,        \* TaskSpec: the arguments the two runs share (task_id apart)
  twinSchema,      \* TaskSpec: the schema both runs read at line 250
  twinStage,       \* TaskSpec: the stage both runs are at (6 at the end)
  withTask,        \* TaskSpec: the run given a task_id: fields, executed, error
  withoutTask,     \* TaskSpec: the run given none
  selTotal,        \* SelectSpec: total_rows of the dataset
  selOffset,       \* SelectSpec: the offset argument of select_rows
  selLimit,        \* SelectSpec: the limit argument of select_rows
  selPos,          \* SelectSpec: rows the cursor has passed
  selOut,          \* SelectSpec: the rows select_rows has yielded
  selpc,           \* SelectSpec: "reading" | "done"
  cmbItem,         \* CombineSpec: the row of the dataset, as a tree
  cmbRequest,      \* CombineSpec: the columns argument of select_rows
  cmbCols,         \* CombineSpec: the resolved paths still to be merged
  cmbOut,          \* CombineSpec: the row being assembled
  cmbpc,           \* CombineSpec: "resolve" | "merge" | "done"
  canonical,       \* AliasSpec: the canonical path, each part a string of characters
  alias,           \* AliasSpec: the dotted-string alias of the path
  reparsed,        \* AliasSpec: the alias parsed as a dotted path
  apc,             \* AliasSpec: "resolve" | "parse" | "done"
  flRequest,       \* FlatSpec: the columns given to select_rows, each a path
  flCols,          \* FlatSpec: the resolved columns, each with its output key
  flError,         \* FlatSpec: the error select_rows raised, kind "none" when none
  flOut,           \* FlatSpec: the rows yielded so far
  flpc,            \* FlatSpec: "call" | "rows" | "raised" | "done"
  mgItem,          \* CombineAliasSpec: the row of the dataset
  mgRequest,       \* CombineAliasSpec: the columns, each with path, alias and UDF flag
  mgN,             \* CombineAliasSpec: the number of columns merged so far
  mgOut,           \* CombineAliasSpec: the combined row built so far
  mgPlain,         \* CombineAliasSpec: the same for the request without its aliases
  mgpc,            \* CombineAliasSpec: "merge" | "done"
  nzFit,           \* NoiseSpec: labels_ and probabilities_ as HDBSCAN.fit left them
  nzSoft,          \* NoiseSpec: the soft membership vector of every noise point
  nzBatch,         \* NoiseSpec: the number of noise points in one membership batch
  nzOut,           \* NoiseSpec: labels and memberships after the reassignment
  nzpc,            \* NoiseSpec: "fitted" | "done"
  pmN,             \* ParamSpec: len(all_vectors)
  pmDim,           \* ParamSpec: all_vectors[0].size, the dimension of the embedding
  pmMinSize,       \* ParamSpec: the min_cluster_size _hdbscan_cluster is called with
  pmCalls,         \* ParamSpec: the UMAP and HDBSCAN objects built, with their parameters
  pmpc,            \* ParamSpec: "embedded" | "reduced" | "done"
  snText,          \* SnippetSpec: the document, a sequence of character codes
  snLead,          \* SnippetSpec: the number of whitespace characters the document starts with
  snTrail,         \* SnippetSpec: the number of whitespace characters the document ends with
  snOut,           \* SnippetSpec: the snippet
  snpc             \* SnippetSpec: "doc" | "done"

pipeVars == <<fields, schema, args, pc, cur, trace, sawTarget, progress, jobs, error,
              task_completed, prev>>
retryVars == <<attempts, lastOutcome, raised>>
labVars == <<labeler, lpc, ranked_docs, request>>
clusterVars == <<rows, remote, cpc, rowsOut, buf, docsIter, gpc, gout, gi, response,
                 yielded, localSteps>>
titleVars == <<items, tasks, titles, calls, tpc>>
catVars == <<catRows, catRemote, catDense, catOut, catpc>>
outVars == <<input_path, output_path, cluster_output_path, wpc, written>>
twinVars == <<twinArgs, twinSchema, twinStage, withTask, withoutTask>>
selVars == <<selTotal, selOffset, selLimit, selPos, selOut, selpc>>
cmbVars == <<cmbItem, cmbRequest, cmbCols, cmbOut, cmbpc>>
aliasVars == <<canonical, alias, reparsed, apc>>
flatVars == <<flRequest, flCols, flError, flOut, flpc>>
mgVars == <<mgItem, mgRequest, mgN, mgOut, mgPlain, mgpc>>
noiseVars == <<nzFit, nzSoft, nzBatch, nzOut, nzpc>>
paramVars == <<pmN, pmDim, pmMinSize, pmCalls, pmpc>>
snipVars == <<snText, snLead, snTrail, snOut, snpc>>
restVars == <<catVars, outVars, twinVars, selVars, cmbVars, aliasVars, flatVars, mgVars, noiseVars, paramVars, snipVars>>
vars == <<fields, schema, args, pc, cur, trace, sawTarget, progress, jobs, error,
          task_completed, prev, attempts, lastOutcome, raised, labeler, lpc,
          ranked_docs, request, rows, remote, cpc, rowsOut, buf, docsIter, gpc, gout,
          gi, response, yielded, localSteps, items, tasks, titles, calls, tpc,
          catRows, catRemote, catDense, catOut, catpc,
          input_path, output_path, cluster_output_path, wpc, written,
          twinArgs, twinSchema, twinStage, withTask, withoutTask,
          selTotal, selOffset, selLimit, selPos, selOut, selpc,
          cmbItem, cmbRequest, cmbCols, cmbOut, cmbpc,
          canonical, alias, reparsed, apc,
          flRequest, flCols, flError, flOut, flpc,
          mgItem, mgRequest, mgN, mgOut, mgPlain, mgpc,
          nzFit, nzSoft, nzBatch, nzOut, nzpc,
          pmN, pmDim, pmMinSize, pmCalls, pmpc,
          snText, snLead, snTrail, snOut, snpc>>

----------------------------------------------------------------------------
(* Bounds *)

NRows == 2      \* rows a map/transform stage writes
NGroups == 1    \* groups a titling stage hands to the labeler
MaxDocs == 16   \* documents in a ranked list handed to a labeler
MaxRows == 3    \* rows given to compute_clusters
MaxItems == 3   \* rows given to _compute_titles
MaxLabel == 1   \* largest cluster label the density clustering returns
MaxPathLen == 3 \* parts of an input path
MaxSelRows == 10 \* rows of the dataset select_rows reads
MaxDepth == 2   \* nesting depth below a top-level field of a row
MaxPartLen == 2 \* characters of a part of a canonical path
MaxAliasParts == 2  \* parts of a canonical path given an alias
MaxFlatRows == 2 \* rows of the dataset select_rows yields without combine_columns
MaxColumns == 2 \* columns of a request with aliases and signal UDFs
MaxVectors == 32 \* vectors given to the reduction and the density clustering
MaxTextLen == 402 \* characters of a document between its whitespace

----------------------------------------------------------------------------
(* Constants of the program *)

CLUSTER_ID == "cluster_id"
CLUSTER_TITLE == "cluster_title"
CATEGORY_ID == "category_id"
CATEGORY_TITLE == "category_title"
TEXT_COLUMN == "text"

MaxAttempts == 10   \* stop_after_attempt(10)
TOP_K_CENTRAL_DOCS == 7
TOP_K_CENTRAL_TITLES == 15

Stages == 1..5
TitlingStages == {3, 5}

\* The field whose presence in the schema gates each stage.
StageTarget(k) ==
  CASE k = 1 -> TEXT_COLUMN
    [] k = 2 -> CLUSTER_ID
    [] k = 3 -> CLUSTER_TITLE
    [] k = 4 -> CATEGORY_ID
    [] k = 5 -> CATEGORY_TITLE

AllFields == {StageTarget(k) : k \in Stages}

----------------------------------------------------------------------------
(* cluster_impl: argument validation, lines 253-265 *)

\* The input, as the validation sees it: a path to a string field, a path the
\* schema does not have, a path to a field that is not a string, or a
\* function (a DatasetFormatInputSelector is unwrapped to its function).
Inputs == {"path", "path_absent", "path_not_string", "fn"}

IsCallable(input) == input = "fn"

\* The validation without the dtype test of line 261.
ConfigErrorNoDtype(a) ==
  IF ~IsCallable(a.input)
    THEN IF a.input = "path_absent" THEN "path does not exist" ELSE "none"
    ELSE IF ~a.output_path THEN "output_path must be provided"
         ELSE "none"

ConfigError(a) ==
  IF ~IsCallable(a.input)
    THEN IF a.input = "path_absent" THEN "path does not exist"
         ELSE IF a.input = "path_not_string" THEN "must be a string field"
         ELSE "none"
    ELSE IF ~a.output_path THEN "output_path must be provided"
         ELSE "none"

\* Every run targets the same cluster output sub-path: the one derived from
\* the input path, or output_path naming it (required for a function).
ArgSet == {a \in [input : Inputs, output_path : BOOLEAN, overwrite : BOOLEAN,
                  recompute_titles : BOOLEAN, task_id : BOOLEAN] :
             a.output_path => IsCallable(a.input)}

----------------------------------------------------------------------------
(* cluster_impl: the five gates, lines 288-289, 316-317, 340-341, 368-369, *)
(* 395-396.  Each reads the schema taken at line 250.                      *)

HasField(s, f) == f \in s

\* The gates with recompute_titles forcing the leaf clustering as well.
ShouldRunRecomputeAll(k, s, a) ==
  CASE k = 1 -> ~HasField(s, TEXT_COLUMN) \/ a.overwrite
    [] k = 2 -> ~HasField(s, CLUSTER_ID) \/ a.overwrite \/ a.recompute_titles
    [] k = 3 -> ~HasField(s, CLUSTER_TITLE) \/ a.overwrite \/ a.recompute_titles
    [] k = 4 -> ~HasField(s, CATEGORY_ID) \/ a.overwrite \/ a.recompute_titles
    [] k = 5 -> ~HasField(s, CATEGORY_TITLE) \/ a.overwrite \/ a.recompute_titles

ShouldRun(k, s, a) ==
  CASE k = 1 -> ~HasField(s, TEXT_COLUMN) \/ a.overwrite
    [] k = 2 -> ~HasField(s, CLUSTER_ID) \/ a.overwrite
    [] k = 3 -> ~HasField(s, CLUSTER_TITLE) \/ a.overwrite \/ a.recompute_titles
    [] k = 4 -> ~HasField(s, CATEGORY_ID) \/ a.overwrite \/ a.recompute_titles
    [] k = 5 -> ~HasField(s, CATEGORY_TITLE) \/ a.overwrite \/ a.recompute_titles

----------------------------------------------------------------------------
(* Dataset.map / Dataset.transform with overwrite=True on the cluster      *)
(* output sub-path.                                                        *)

\* The fields of the sub-path after stage k has written all its rows.
\* Stages 1-4 yield the existing item plus their own columns; stage 5
\* deletes the text column and writes under the explicit schema.
StageWrites(k, f) ==
  IF k = 5
    THEN {CLUSTER_ID, CLUSTER_TITLE, CATEGORY_ID, CATEGORY_TITLE}
    ELSE f \cup {StageTarget(k)}

\* A stage that stops part-way leaves partial output, which an existence
\* check treats as absent.
StageAborts(k, f) == f \ {StageTarget(k)}

----------------------------------------------------------------------------
(* request_with_retries: the tenacity policy, lines 108-112 and 158-162 *)

Outcomes == {"ok", "rate_limit", "timeout", "other"}

\* retry_if_exception_type((RateLimitError, APITimeoutError))
ShouldRetry(o) == o \in {"rate_limit", "timeout"}

\* The stop test off by one: an eleventh request after ten failures.
ShouldStopLate(n) == n > MaxAttempts

\* stop_after_attempt(10)
ShouldStop(n) == n >= MaxAttempts

\* What one request does to the call: "return", "retry" or "raise".
AfterRequest(o, n) ==
  IF o = "ok" THEN "return"
  ELSE IF ShouldRetry(o) /\ ~ShouldStop(n) THEN "retry"
  ELSE "raise"

\* The exception the caller sees: the backend's own for a failure that is
\* not retried, tenacity's RetryError once the attempts are used up.
Raises(o) == IF ShouldRetry(o) THEN "RetryError" ELSE o

----------------------------------------------------------------------------
(* cluster_impl as a state machine *)

Ev(e, k, n) == [ev |-> e, stage |-> k, rows |-> n]

Started == {trace[i].stage : i \in {j \in DOMAIN trace : trace[j].ev = "start"}}
Ended == {trace[i].stage : i \in {j \in DOMAIN trace : trace[j].ev = "end"}}
Skipped == {trace[i].stage : i \in {j \in DOMAIN trace : trace[j].ev = "skip"}}
Failed == {trace[i].stage : i \in {j \in DOMAIN trace : trace[j].ev = "fail"}}

NoPrev == [failed |-> 0, completed |-> {}, input |-> "none"]

\* The tasks of a titling stage, one per group, none started.
NoJobs == [g \in 1..NGroups |-> [status |-> "pending", attempts |-> 0]]

PipeInit ==
  /\ fields = {}
  /\ schema = {}
  /\ args = [input |-> "path", output_path |-> FALSE, overwrite |-> FALSE,
             recompute_titles |-> FALSE, task_id |-> FALSE]
  /\ pc = "idle"
  /\ cur = 0
  /\ trace = <<>>
  /\ sawTarget = {}
  /\ progress = 0
  /\ jobs = NoJobs
  /\ error = "none"
  /\ task_completed = FALSE
  /\ prev = NoPrev

RetryInit ==
  /\ attempts = 0
  /\ lastOutcome = "none"
  /\ raised = "none"

\* Lines 246-283: read the schema, validate the arguments.
StartRun(a) ==
  /\ pc = "idle"
  /\ args' = a
  /\ schema' = fields
  /\ prev' = [failed |-> IF Failed = {} THEN 0 ELSE CHOOSE k \in Failed : TRUE,
              completed |-> Ended,
              input |-> IF cur = 0 THEN "none" ELSE args.input]
  /\ trace' = <<>>
  /\ sawTarget' = {}
  /\ progress' = 0
  /\ task_completed' = FALSE
  /\ cur' = 1
  /\ raised' = "none"
  /\ IF ConfigError(a) # "none"
       THEN error' = "config" /\ pc' = "idle"
       ELSE error' = "none" /\ pc' = "gate"
  /\ UNCHANGED <<fields, jobs, attempts, lastOutcome, labVars, clusterVars, titleVars, restVars>>

\* The same with the category clustering block placed before the leaf titling.
AdvanceSwapped(k) ==
  CASE k = 2 -> pc' = "gate" /\ cur' = 4
    [] k = 4 -> pc' = "gate" /\ cur' = 3
    [] k = 3 -> pc' = "gate" /\ cur' = 5
    [] k = 5 -> pc' = "finish" /\ cur' = k
    [] OTHER -> pc' = "gate" /\ cur' = k + 1

\* Where the run goes once stage k is over (skipped or written).
Advance(k) ==
  IF k = 5 THEN pc' = "finish" /\ cur' = k
  ELSE pc' = "gate" /\ cur' = k + 1

\* One of the five `if not <target>_exists or ...:` tests.
Gate ==
  /\ pc = "gate"
  /\ sawTarget' = IF HasField(fields, StageTarget(cur)) THEN sawTarget \cup {cur}
                  ELSE sawTarget
  /\ IF ShouldRun(cur, schema, args)
       THEN /\ trace' = Append(trace, Ev("start", cur, 0))
            /\ pc' = "stage"
            /\ cur' = cur
       ELSE /\ trace' = Append(trace, Ev("skip", cur, 0))
            /\ Advance(cur)
  /\ progress' = 0
  /\ UNCHANGED <<fields, schema, args, jobs, error, task_completed, prev, retryVars, labVars, clusterVars, titleVars, restVars>>

\* A map/transform stage produces one more row.
ProcessRow ==
  /\ pc = "stage"
  /\ cur \notin TitlingStages
  /\ progress < NRows
  /\ progress' = progress + 1
  /\ UNCHANGED <<fields, schema, args, pc, cur, trace, sawTarget, jobs, error,
                 task_completed, prev, retryVars, labVars, clusterVars, titleVars, restVars>>

\* The frame of a step inside a titling stage that does not end the run.
TitlingFrame ==
  UNCHANGED <<fields, schema, args, pc, cur, trace, sawTarget, error, task_completed,
              prev, attempts, lastOutcome, labVars, clusterVars, titleVars, restVars>>

\* _compute_title in a worker thread on a group with no documents: no
\* labeler call, the task is done.
TitleEmptyGroup(g) ==
  /\ pc = "stage"
  /\ cur \in TitlingStages
  /\ jobs[g].status = "pending"
  /\ jobs' = [jobs EXCEPT ![g].status = "done"]
  /\ UNCHANGED <<progress, raised>>
  /\ TitlingFrame

\* _compute_title in a worker thread on a group with documents: it enters
\* topic_fn(sorted_docs), the labeler call, with no request made yet.
TitleGroup(g) ==
  /\ pc = "stage"
  /\ cur \in TitlingStages
  /\ jobs[g].status = "pending"
  /\ jobs' = [jobs EXCEPT ![g].status = "calling"]
  /\ UNCHANGED <<progress, raised>>
  /\ TitlingFrame

\* A labeler failure caught in _compute_title and the group left untitled.
LabelerFailureSwallowed(g) ==
  /\ jobs' = [jobs EXCEPT ![g].status = "done", ![g].attempts = 0]
  /\ UNCHANGED <<fields, trace, error, pc, cur>>

\* What a labeler failure does to the titling stage: nothing catches it, so
\* it leaves _compute_titles, the transform and cluster_impl, and the pool
\* is given up with the calls of the other groups where they are.
LabelerFailure(g) ==
  /\ error' = "labeler"
  /\ fields' = StageAborts(cur, fields)
  /\ trace' = Append(trace, Ev("fail", cur, progress))
  /\ pc' = "idle"
  /\ jobs' = NoJobs
  /\ UNCHANGED cur

\* request_with_retries in the thread of group g issues one request: the
\* call returns a title, or tenacity starts a wait before the next request,
\* or the call raises.  The attempt number is tenacity's, local to the call:
\* it is gone when the call is over.
TitleRequest(g, o) ==
  /\ pc = "stage"
  /\ cur \in TitlingStages
  /\ jobs[g].status = "calling"
  /\ LET n == jobs[g].attempts + 1
         step == AfterRequest(o, n)
     IN CASE step = "return" ->
               /\ jobs' = [jobs EXCEPT ![g].status = "done", ![g].attempts = 0]
               /\ UNCHANGED <<fields, trace, error, pc, cur, raised>>
          [] step = "retry" ->
               /\ jobs' = [jobs EXCEPT ![g].status = "waiting", ![g].attempts = n]
               /\ UNCHANGED <<fields, trace, error, pc, cur, raised>>
          [] step = "raise" ->
               /\ raised' = Raises(o)
               /\ LabelerFailure(g)
  /\ UNCHANGED <<schema, args, sawTarget, progress, task_completed, prev, attempts,
                 lastOutcome, labVars, clusterVars, titleVars, restVars>>

\* The wait between two requests of the call for group g (time.sleep in its
\* thread) is over.
TitleWait(g) ==
  /\ pc = "stage"
  /\ cur \in TitlingStages
  /\ jobs[g].status = "waiting"
  /\ jobs' = [jobs EXCEPT ![g].status = "calling"]
  /\ UNCHANGED <<progress, raised>>
  /\ TitlingFrame

\* Lines 227-231: the consumer takes the result of the next group, in the
\* order of the groups, and yields its title.
TitleYielded ==
  /\ pc = "stage"
  /\ cur \in TitlingStages
  /\ progress < NGroups
  /\ jobs[progress + 1].status = "done"
  /\ progress' = progress + 1
  /\ UNCHANGED <<jobs, raised>>
  /\ TitlingFrame

\* The stage has produced every row: the dataset commits its output.
CompleteStage ==
  /\ pc = "stage"
  /\ progress = IF cur \in TitlingStages THEN NGroups ELSE NRows
  /\ fields' = StageWrites(cur, fields)
  /\ trace' = Append(trace, Ev("end", cur, progress))
  /\ Advance(cur)
  /\ jobs' = NoJobs
  /\ UNCHANGED <<schema, args, sawTarget, progress, error, task_completed, prev,
                 retryVars, labVars, clusterVars, titleVars, restVars>>

\* The stage stops part-way on a failure other than the labeler's (the
\* storage layer, the embedding provider, the remote service).
FailStage ==
  /\ pc = "stage"
  /\ error' = "stage"
  /\ fields' = StageAborts(cur, fields)
  /\ trace' = Append(trace, Ev("fail", cur, progress))
  /\ pc' = "idle"
  /\ jobs' = NoJobs
  /\ UNCHANGED <<schema, args, cur, sawTarget, progress, task_completed, prev,
                 retryVars, labVars, clusterVars, titleVars, restVars>>

\* Lines 440-441.
Finish ==
  /\ pc = "finish"
  /\ task_completed' = args.task_id
  /\ pc' = "idle"
  /\ UNCHANGED <<fields, schema, args, cur, trace, sawTarget, progress, jobs, error, prev,
                 retryVars, labVars, clusterVars, titleVars, restVars>>

LabelerInit ==
  /\ labeler = "none"
  /\ lpc = "ready"
  /\ ranked_docs = <<>>
  /\ request = <<>>

\* No compute_clusters call in progress.
ClusterIdle ==
  /\ rows = <<>>
  /\ remote = FALSE
  /\ cpc = "done"
  /\ rowsOut = <<>>
  /\ buf = <<>>
  /\ docsIter = <<>>
  /\ gpc = "unstarted"
  /\ gout = <<>>
  /\ gi = 0
  /\ response = <<>>
  /\ yielded = <<>>
  /\ localSteps = {}

\* No _compute_titles call in progress.
TitlesIdle ==
  /\ items = <<>>
  /\ tasks = <<>>
  /\ titles = <<>>
  /\ calls = <<>>
  /\ tpc = "done"

\* No compute_category_clusters call in progress.
CategoryIdle ==
  /\ catRows = <<>>
  /\ catRemote = FALSE
  /\ catDense = <<>>
  /\ catOut = <<>>
  /\ catpc = "done"

\* No output path being resolved.
OutputPathIdle ==
  /\ input_path = <<>>
  /\ output_path = <<>>
  /\ cluster_output_path = <<>>
  /\ wpc = 6
  /\ written = {}

\* No pair of runs being compared.
TaskIdle ==
  /\ twinArgs = [overwrite |-> FALSE, recompute_titles |-> FALSE]
  /\ twinSchema = {}
  /\ twinStage = 6
  /\ withTask = [fields |-> {}, executed |-> {}, error |-> "none"]
  /\ withoutTask = [fields |-> {}, executed |-> {}, error |-> "none"]

\* No select_rows call in progress.
SelectIdle ==
  /\ selTotal = 0
  /\ selOffset = 0
  /\ selLimit = 0
  /\ selPos = 0
  /\ selOut = <<>>
  /\ selpc = "done"

\* No combined select_rows call in progress.
CombineIdle ==
  /\ cmbItem = <<>>
  /\ cmbRequest = <<>>
  /\ cmbCols = <<>>
  /\ cmbOut = <<>>
  /\ cmbpc = "done"

\* No path being resolved.
AliasIdle ==
  /\ canonical = <<>>
  /\ alias = <<>>
  /\ reparsed = <<>>
  /\ apc = "done"

\* select_rows without combine_columns not called.
FlatIdle ==
  /\ flRequest = <<>>
  /\ flCols = <<>>
  /\ flError = [kind |-> "none", part |-> ""]
  /\ flOut = <<>>
  /\ flpc = "done"

\* select_rows with combine_columns and column objects not called.
CombineAliasIdle ==
  /\ mgItem = <<>>
  /\ mgRequest = <<>>
  /\ mgN = 0
  /\ mgOut = <<>>
  /\ mgPlain = <<>>
  /\ mgpc = "done"

\* _hdbscan_cluster not past its fit.
NoiseIdle ==
  /\ nzFit = <<>>
  /\ nzSoft = <<>>
  /\ nzBatch = 0
  /\ nzOut = <<>>
  /\ nzpc = "done"

\* _hdbscan_cluster not past its embedding.
ParamIdle ==
  /\ pmN = 0
  /\ pmDim = 0
  /\ pmMinSize = 0
  /\ pmCalls = <<>>
  /\ pmpc = "done"

\* No document being shortened.
SnippetIdle ==
  /\ snText = <<>>
  /\ snLead = 0
  /\ snTrail = 0
  /\ snOut = <<>>
  /\ snpc = "done"

RestIdle == CategoryIdle /\ OutputPathIdle /\ TaskIdle /\ SelectIdle /\ CombineIdle /\ AliasIdle /\ FlatIdle /\ CombineAliasIdle /\ NoiseIdle /\ ParamIdle /\ SnippetIdle

Init ==
  /\ RestIdle
  /\ PipeInit
  /\ RetryInit
  /\ LabelerInit
  /\ ClusterIdle
  /\ TitlesIdle

Next ==
  \/ \E a \in ArgSet : StartRun(a)
  \/ Gate
  \/ ProcessRow
  \/ \E g \in 1..NGroups : TitleEmptyGroup(g)
  \/ \E g \in 1..NGroups : TitleGroup(g)
  \/ \E g \in 1..NGroups, o \in Outcomes : TitleRequest(g, o)
  \/ \E g \in 1..NGroups : TitleWait(g)
  \/ TitleYielded
  \/ CompleteStage
  \/ FailStage
  \/ Finish

Spec == Init /\ [][Next]_vars

----------------------------------------------------------------------------
(* One call of a labeler, request by request *)

Labelers == {"summarize_request", "generate_category"}

Min(a, b) == IF a <= b THEN a ELSE b

\* ranked_docs[:_TOP_K_CENTRAL_DOCS] and ranked_docs[:_TOP_K_CENTRAL_TITLES]
TopK(l) == IF l = "summarize_request" THEN TOP_K_CENTRAL_DOCS ELSE TOP_K_CENTRAL_TITLES

\* The request built from the whole ranked list.
RequestDocsAll(l, docs) == docs

\* Lines 96 and 147: ranked_docs[:K], the documents the request is built from.
RequestDocs(l, docs) == SubSeq(docs, 1, Min(TopK(l), Len(docs)))

\* Ranked lists of n distinct documents, document i at rank i.
RankedLists == {[i \in 1..n |-> i] : n \in 0..MaxDocs}

\* Lines 108-135 and 158-183: a call starts with no request made.
LabelerCall(l, docs) ==
  /\ lpc \notin {"calling", "waiting"}
  /\ labeler' = l
  /\ ranked_docs' = docs
  /\ request' = RequestDocs(l, docs)
  /\ lpc' = "calling"
  /\ attempts' = 0
  /\ lastOutcome' = "none"
  /\ raised' = "none"
  /\ UNCHANGED <<pipeVars, clusterVars, titleVars, restVars>>

\* request_with_retries issues one request and tenacity decides what follows.
LabelerRequest(o) ==
  /\ lpc = "calling"
  /\ attempts < MaxAttempts + 2
  /\ attempts' = attempts + 1
  /\ lastOutcome' = o
  /\ CASE AfterRequest(o, attempts + 1) = "return" ->
            lpc' = "returned" /\ raised' = "none"
       [] AfterRequest(o, attempts + 1) = "retry" ->
            lpc' = "waiting" /\ raised' = "none"
       [] AfterRequest(o, attempts + 1) = "raise" ->
            lpc' = "raised" /\ raised' = Raises(o)
  /\ UNCHANGED <<labeler, ranked_docs, request, pipeVars, clusterVars, titleVars, restVars>>

\* The wait tenacity puts between two requests (wait_random_exponential,
\* at most 60 s, a time.sleep in the calling thread) is over.
LabelerWait ==
  /\ lpc = "waiting"
  /\ lpc' = "calling"
  /\ UNCHANGED <<labeler, ranked_docs, request, retryVars, pipeVars, clusterVars,
                 titleVars, restVars>>

LabelerNext ==
  \/ \E l \in Labelers, docs \in RankedLists : LabelerCall(l, docs)
  \/ \E o \in Outcomes : LabelerRequest(o)
  \/ LabelerWait

LabelerSpec == Init /\ [][LabelerNext]_vars

\* Every request is answered or times out in the client, and every wait of
\* the backoff is at most 60 s, so a pending request and a wait are
\* eventually over.
LabelerFair ==
  /\ LabelerSpec
  /\ WF_vars(\E o \in Outcomes : LabelerRequest(o))
  /\ WF_vars(LabelerWait)

----------------------------------------------------------------------------
(* _hdbscan_cluster, lines 444-545, as a generator, and compute_clusters,  *)
(* lines 323-330, which drives it through the sparse/dense bridge.         *)

CLUSTER_MEMBERSHIP_PROB == "cluster_membership_prob"
BATCH_SOFT_CLUSTER_NOISE == 1024
UMAP_DIM == 5

None == "None"                       \* Python's None as a text value
TextValues == {None, "", "a"}
ProbValues == {0, 5, 10}             \* membership probabilities, in tenths

ClusterItem(id, p) == [cluster_id |-> id, cluster_membership_prob |-> p]

RECURSIVE SeqsUpTo(_, _)
SeqsUpTo(S, n) ==
  IF n = 0 THEN {<<>>}
  ELSE LET shorter == SeqsUpTo(S, n - 1)
       IN shorter \cup {Append(q, x) : q \in {r \in shorter : Len(r) = n - 1}, x \in S}

RowSeqs == {q \in SeqsUpTo({[text |-> t] : t \in TextValues}, MaxRows) : Len(q) >= 1}

\* item.get(TEXT_COLUMN) for every item, and the values the bridge passes on:
\* those that are not None, in order.
RECURSIVE Densify(_)
Densify(q) ==
  IF q = <<>> THEN <<>>
  ELSE IF Head(q).text = None THEN Densify(Tail(q))
  ELSE <<Head(q).text>> \o Densify(Tail(q))

\* The remote function's answer for n documents: one pair per document.
Responses(n) == [1..n -> {ClusterItem(id, p) : id \in -1..MaxLabel, p \in ProbValues}]

\* What HDBSCAN.fit leaves in labels_ and probabilities_ for n vectors: labels
\* 0..c-1 for the c clusters found and -1 for noise, noise with probability 0.
Fits(n) ==
  {f \in [labels : [1..n -> -1..MaxLabel], probs : [1..n -> ProbValues]] :
     /\ \A i \in 1..n : f.labels[i] = -1 => f.probs[i] = 0
     /\ \A i \in 1..n : f.labels[i] > 0 => \E j \in 1..n : f.labels[j] = f.labels[i] - 1}

NumClusters(f) ==
  Cardinality({f.labels[i] : i \in DOMAIN f.labels} \ {-1})

\* The indices of the noise points, in input order (noisy_vectors).
RECURSIVE NoisyFrom(_, _)
NoisyFrom(labels, i) ==
  IF i > Len(labels) THEN <<>>
  ELSE IF labels[i] = -1 THEN <<i>> \o NoisyFrom(labels, i + 1)
  ELSE NoisyFrom(labels, i + 1)

Noisy(labels) == NoisyFrom(labels, 1)

\* utils.chunks: consecutive pieces of at most `size` elements.
RECURSIVE Chunks(_, _)
Chunks(q, size) ==
  IF q = <<>> THEN <<>>
  ELSE IF Len(q) <= size THEN <<q>>
  ELSE <<SubSeq(q, 1, size)>> \o Chunks(SubSeq(q, size + 1, Len(q)), size)

\* np.argmax and np.max of one row of soft_clusters (columns 0..c-1).
ArgMax(v, c) ==
  CHOOSE j \in 0..(c - 1) :
    /\ \A k \in 0..(c - 1) : v[k] <= v[j]
    /\ \A k \in 0..(j - 1) : v[k] < v[j]

MaxOf(v, c) == v[ArgMax(v, c)]

\* Lines 524-533 with every noise point of a batch given the argmax and max
\* of the first of the batch.
RECURSIVE BatchResultsFirstOfBatch(_, _, _)
BatchResultsFirstOfBatch(batches, soft, c) ==
  IF batches = <<>> THEN <<>>
  ELSE [k \in 1..Len(Head(batches)) |->
          ClusterItem(ArgMax(soft[Head(batches)[1]], c), MaxOf(soft[Head(batches)[1]], c))]
       \o BatchResultsFirstOfBatch(Tail(batches), soft, c)

\* Lines 524-533: the soft membership of every batch of noise points, each
\* reduced to its argmax and max, the batches concatenated in order.
RECURSIVE BatchResults(_, _, _)
BatchResults(batches, soft, c) ==
  IF batches = <<>> THEN <<>>
  ELSE [k \in 1..Len(Head(batches)) |->
          ClusterItem(ArgMax(soft[Head(batches)[k]], c), MaxOf(soft[Head(batches)[k]], c))]
       \o BatchResults(Tail(batches), soft, c)

\* The reassignment that also sets the membership of every point that is
\* not noise to the full membership.
ReassignWithFullMembership(f, soft, batch) ==
  LET n == Len(f.labels)
      noisy == Noisy(f.labels)
      c == NumClusters(f)
      res == BatchResults(Chunks(noisy, batch), soft, c)
      Rank(i) == CHOOSE k \in 1..Len(noisy) : noisy[k] = i
  IN IF Len(noisy) > 0 /\ Len(noisy) < n
       THEN [labels |-> [i \in 1..n |-> IF f.labels[i] = -1
                                          THEN res[Rank(i)].cluster_id ELSE f.labels[i]],
             probs |-> [i \in 1..n |-> IF f.labels[i] = -1
                                         THEN res[Rank(i)].cluster_membership_prob
                                         ELSE 10]]
       ELSE f

\* Lines 522-539 with batches of `batch` noise points: np.concatenate, then
\* the k-th noise point takes the k-th result.
ReassignWith(f, soft, batch) ==
  LET n == Len(f.labels)
      noisy == Noisy(f.labels)
      c == NumClusters(f)
      res == BatchResults(Chunks(noisy, batch), soft, c)
      Rank(i) == CHOOSE k \in 1..Len(noisy) : noisy[k] = i
  IN IF Len(noisy) > 0 /\ Len(noisy) < n
       THEN [labels |-> [i \in 1..n |-> IF f.labels[i] = -1
                                          THEN res[Rank(i)].cluster_id ELSE f.labels[i]],
             probs |-> [i \in 1..n |-> IF f.labels[i] = -1
                                         THEN res[Rank(i)].cluster_membership_prob
                                         ELSE f.probs[i]]]
       ELSE f

\* Lines 522-539, the batches of BATCH_SOFT_CLUSTER_NOISE noise points.
Reassign(f, soft) == ReassignWith(f, soft, BATCH_SOFT_CLUSTER_NOISE)

\* membership_vector: a row of c memberships for every noise point.
SoftClusters(f) ==
  [{i \in 1..Len(f.labels) : f.labels[i] = -1} -> [0..(NumClusters(f) - 1) -> ProbValues]]

\* Lines 544-545.
LocalOutput(g) == [i \in 1..Len(g.labels) |-> ClusterItem(g.labels[i], g.probs[i])]

\* The steps of lines 456-539 that call a library on n vectors of dimension
\* dim: the embedding and the clustering always, the reduction under the
\* test of line 480, the reassignment under the test of line 522.
LocalSteps(f, dim) ==
  LET n == Len(f.labels)
      num_noisy == Len(Noisy(f.labels))
  IN {"embedding", "clustering"}
       \cup (IF UMAP_DIM < dim /\ UMAP_DIM < n THEN {"reduction"} ELSE {})
       \cup (IF num_noisy > 0 /\ num_noisy < n THEN {"reassignment"} ELSE {})

\* compute_clusters is called on the rows of the dataset.
ClusterBegin(q, r) ==
  /\ rows = q
  /\ remote = r
  /\ cpc = "running"
  /\ rowsOut = <<>>
  /\ buf = <<>>
  /\ docsIter = Densify(q)
  /\ gpc = "unstarted"
  /\ gout = <<>>
  /\ gi = 0
  /\ response = <<>>
  /\ yielded = <<>>
  /\ localSteps = {}

\* The bridge wants the next dense output: compute_clusters is waiting for
\* the cluster item of a row and none is held.
BridgeFetches ==
  /\ cpc = "running"
  /\ Len(rowsOut) < Len(rows)
  /\ buf = <<>>

\* The generator yields one more item of the list it is going through.
GenYield ==
  /\ BridgeFetches
  /\ gpc \in {"remote", "local"}
  /\ gi < Len(gout)
  /\ gi' = gi + 1
  /\ buf' = <<gout[gi + 1]>>
  /\ yielded' = Append(yielded, gout[gi + 1])
  /\ UNCHANGED <<rows, remote, cpc, rowsOut, docsIter, gpc, gout, response, localSteps>>
  /\ UNCHANGED <<pipeVars, retryVars, labVars, titleVars, restVars>>

\* Lines 450-454, first resumption with remote set: list(docs) is sent and
\* the generator enters `yield from response['clusters']`.
GenStartRemote(resp) ==
  /\ BridgeFetches
  /\ gpc = "unstarted"
  /\ remote
  /\ docsIter' = <<>>
  /\ response' = resp
  /\ gout' = resp
  /\ gi' = 0
  /\ gpc' = "remote"
  /\ UNCHANGED <<rows, remote, cpc, rowsOut, buf, yielded, localSteps>>
  /\ UNCHANGED <<pipeVars, retryVars, labVars, titleVars, restVars>>

\* Lines 456-545 up to the first yield, entered with the documents left in
\* the iterator: list(docs) is embedded; with no vector, all_vectors[0]
\* raises; otherwise the vectors, of dimension dim, are reduced when there
\* are enough of them, clustered, and the noise reassigned when there is
\* noise and not only noise.
LocalRun(f, soft, dim) ==
  /\ docsIter' = <<>>
  /\ IF Len(docsIter) = 0
       THEN /\ localSteps' = localSteps \cup {"embedding"}
            /\ gpc' = "raised"
            /\ UNCHANGED <<gout, gi>>
       ELSE /\ localSteps' = localSteps \cup LocalSteps(f, dim)
            /\ gout' = LocalOutput(Reassign(f, soft))
            /\ gi' = 0
            /\ gpc' = "local"

\* First resumption without remote.
GenStartLocal(f, soft, dim) ==
  /\ BridgeFetches
  /\ gpc = "unstarted"
  /\ ~remote
  /\ LocalRun(f, soft, dim)
  /\ UNCHANGED <<rows, remote, cpc, rowsOut, buf, response, yielded>>
  /\ UNCHANGED <<pipeVars, retryVars, labVars, titleVars, restVars>>

\* Resumption after the last item of response['clusters']: nothing returns
\* after line 454, so control reaches line 456.
GenAfterRemote(f, soft, dim) ==
  /\ BridgeFetches
  /\ gpc = "remote"
  /\ gi = Len(gout)
  /\ LocalRun(f, soft, dim)
  /\ UNCHANGED <<rows, remote, cpc, rowsOut, buf, response, yielded>>
  /\ UNCHANGED <<pipeVars, retryVars, labVars, titleVars, restVars>>

\* Resumption after the last item of the local loop: the generator returns.
GenReturn ==
  /\ BridgeFetches
  /\ gpc = "local"
  /\ gi = Len(gout)
  /\ gpc' = "done"
  /\ UNCHANGED <<rows, remote, cpc, rowsOut, buf, docsIter, gout, gi, response, yielded,
                 localSteps>>
  /\ UNCHANGED <<pipeVars, retryVars, labVars, titleVars, restVars>>

\* {**item, **(cluster_item or {})}
MergeItem(item, cluster_item) ==
  IF cluster_item = <<>> THEN item ELSE cluster_item @@ item

\* The cluster item the bridge gives for the next row: the held dense output
\* when the row has a text, None (here <<>>) when it has not or the function
\* has no more output.
BridgeItem(row) ==
  IF row.text # None /\ buf # <<>> THEN buf[1] ELSE <<>>

\* Line 329-330: one more row is zipped with its cluster item and yielded.
EmitRow ==
  /\ cpc = "running"
  /\ Len(rowsOut) < Len(rows)
  /\ buf # <<>> \/ gpc = "done"
  /\ LET row == rows[Len(rowsOut) + 1]
     IN /\ rowsOut' = Append(rowsOut, MergeItem(row, BridgeItem(row)))
        /\ buf' = IF row.text # None THEN <<>> ELSE buf
  /\ UNCHANGED <<rows, remote, cpc, docsIter, gpc, gout, gi, response, yielded, localSteps>>
  /\ UNCHANGED <<pipeVars, retryVars, labVars, titleVars, restVars>>

\* zip stops at the end of the rows: the transform has every row.
ClusterDone ==
  /\ cpc = "running"
  /\ Len(rowsOut) = Len(rows)
  /\ cpc' = "done"
  /\ UNCHANGED <<rows, remote, rowsOut, buf, docsIter, gpc, gout, gi, response, yielded,
                 localSteps>>
  /\ UNCHANGED <<pipeVars, retryVars, labVars, titleVars, restVars>>

\* An exception of the generator leaves the bridge and compute_clusters.
ClusterFails ==
  /\ cpc = "running"
  /\ gpc = "raised"
  /\ cpc' = "failed"
  /\ UNCHANGED <<rows, remote, rowsOut, buf, docsIter, gpc, gout, gi, response, yielded,
                 localSteps>>
  /\ UNCHANGED <<pipeVars, retryVars, labVars, titleVars, restVars>>

ClusterInit ==
  /\ RestIdle
  /\ PipeInit
  /\ RetryInit
  /\ LabelerInit
  /\ TitlesIdle
  /\ \E q \in RowSeqs, r \in BOOLEAN : ClusterBegin(q, r)

ClusterNext ==
  \/ GenYield
  \/ \E resp \in Responses(Len(docsIter)) : GenStartRemote(resp)
  \/ \E f \in Fits(Len(docsIter)) : \E soft \in SoftClusters(f) :
       \E dim \in {UMAP_DIM - 1, UMAP_DIM + 1} : GenStartLocal(f, soft, dim)
  \/ \E f \in Fits(Len(docsIter)) : \E soft \in SoftClusters(f) :
       \E dim \in {UMAP_DIM - 1, UMAP_DIM + 1} : GenAfterRemote(f, soft, dim)
  \/ GenReturn
  \/ EmitRow
  \/ ClusterDone
  \/ ClusterFails

ClusterSpec == ClusterInit /\ [][ClusterNext]_vars

----------------------------------------------------------------------------
(* _compute_titles, lines 186-231 *)

NUM_THREADS == 32

GroupIds == -1..1

\* (text, membership probability) of a row: an empty text, a zero
\* membership, one text with two probabilities, two texts with one.
ItemKinds == {<<"", 5>>, <<"a", 0>>, <<"a", 5>>, <<"a", 10>>, <<"b", 10>>}

TitleItems == {[id |-> g, text |-> k[1], prob |-> k[2]] : g \in GroupIds, k \in ItemKinds}

\* The transform sorts the rows by the id column before _compute_titles.
SortedById(q) == \A i, j \in DOMAIN q : i < j => q[i].id <= q[j].id

ItemSeqs == {q \in SeqsUpTo(TitleItems, MaxItems) : Len(q) >= 1 /\ SortedById(q)}

\* group_by_sorted_key_iter(items, lambda x: x[id_column]): the maximal runs
\* of consecutive items with the same id, as lists of positions.
RECURSIVE GroupsFrom(_, _)
GroupsFrom(q, i) ==
  IF i > Len(q) THEN <<>>
  ELSE LET last == CHOOSE j \in i..Len(q) :
                     /\ \A k \in i..j : q[k].id = q[i].id
                     /\ (j < Len(q) => q[j + 1].id # q[i].id)
       IN <<[k \in 1..(last - i + 1) |-> i + k - 1]>> \o GroupsFrom(q, last + 1)

Groups(q) == GroupsFrom(q, 1)

\* The group a row belongs to.
GroupOf(q, i) == CHOOSE g \in DOMAIN Groups(q) : \E k \in DOMAIN Groups(q)[g] : Groups(q)[g][k] = i

\* Lines 205-215 without the `cluster_id < 0` test.
EligibleAnyId(item) ==
  /\ item.text # ""
  /\ item.prob # 0

\* Lines 205-215: the rows of a group that contribute a document.
Eligible(item) ==
  /\ ~(item.id < 0)
  /\ item.text # ""
  /\ item.prob # 0

\* Line 218: list(set(sorted_docs)), the distinct (text, probability) pairs.
GroupDocs(q, group) ==
  {<<q[group[k]].text, q[group[k]].prob>> : k \in {j \in DOMAIN group : Eligible(q[group[j]])}}

\* Line 220 without the sort of line 221: the pairs in any order.
AnyOrders(S) ==
  {o \in [1..Cardinality(S) -> S] : \A i, j \in DOMAIN o : i # j => o[i] # o[j]}

\* Lines 220-221: a shuffle, then a stable sort by descending probability:
\* any order of the pairs in which the probabilities never increase.
SortedOrders(S) ==
  {o \in [1..Cardinality(S) -> S] :
     /\ \A i, j \in DOMAIN o : i # j => o[i] # o[j]
     /\ \A i, j \in DOMAIN o : i < j => o[i][2] >= o[j][2]}

NoTitle == <<>>                     \* Python's None as a title
TitleBy(g) == <<g>>                 \* the title topic_fn returns for task g

TitlesBegin(q) ==
  /\ items = q
  /\ tasks = <<>>
  /\ titles = <<>>
  /\ calls = <<>>
  /\ tpc = "running"

TitlesFrame == UNCHANGED <<pipeVars, retryVars, labVars, clusterVars, restVars>>

\* The document lists line 221 can leave for the next group of the generator.
NextOrders ==
  IF Len(tasks) < Len(Groups(items))
    THEN SortedOrders(GroupDocs(items, Groups(items)[Len(tasks) + 1]))
    ELSE {}

\* Line 222: the next group is taken from the generator and its task is
\* handed to the pool.
Dispatch(order) ==
  /\ tpc = "running"
  /\ Len(tasks) < Len(Groups(items))
  /\ Cardinality({g \in DOMAIN tasks : tasks[g].status \notin {"done", "failed"}})
       < 2 * NUM_THREADS
  /\ tasks' = Append(tasks, [docs |-> order,
                             size |-> Len(Groups(items)[Len(tasks) + 1]),
                             status |-> "pending",
                             attempts |-> 0,
                             title |-> NoTitle])
  /\ UNCHANGED <<items, titles, calls, tpc>>
  /\ TitlesFrame

\* _compute_title without the `if not sorted_docs` test of line 197.
RunTaskAlwaysCalls(g) ==
  /\ tpc = "running"
  /\ g \in DOMAIN tasks
  /\ tasks[g].status = "pending"
  /\ Cardinality({h \in DOMAIN tasks : tasks[h].status \in {"calling", "waiting"}})
       < NUM_THREADS
  /\ calls' = Append(calls, g)
  /\ tasks' = [tasks EXCEPT ![g].status = "calling"]
  /\ UNCHANGED <<items, titles, tpc>>
  /\ TitlesFrame

\* _compute_title is started in a worker thread: it returns at once for an
\* empty document list and enters topic_fn(sorted_docs) otherwise.
RunTask(g) ==
  /\ tpc = "running"
  /\ g \in DOMAIN tasks
  /\ tasks[g].status = "pending"
  /\ Cardinality({h \in DOMAIN tasks : tasks[h].status \in {"calling", "waiting"}})
       < NUM_THREADS
  /\ IF tasks[g].docs = <<>>
       THEN /\ tasks' = [tasks EXCEPT ![g].status = "done"]
            /\ UNCHANGED calls
       ELSE /\ calls' = Append(calls, g)
            /\ tasks' = [tasks EXCEPT ![g].status = "calling"]
  /\ UNCHANGED <<items, titles, tpc>>
  /\ TitlesFrame

\* request_with_retries in the thread of task g issues one request: the
\* call returns the title, or tenacity starts a wait, or the call raises.
\* The attempt number is tenacity's, local to the call: it is gone when the
\* call has returned.
TaskRequest(g, o) ==
  /\ tpc = "running"
  /\ g \in DOMAIN tasks
  /\ tasks[g].status = "calling"
  /\ LET n == tasks[g].attempts + 1
         step == AfterRequest(o, n)
     IN tasks' = [tasks EXCEPT ![g].attempts = IF step = "return" THEN 0 ELSE n,
                               ![g].status = CASE step = "return" -> "done"
                                               [] step = "retry" -> "waiting"
                                               [] step = "raise" -> "failed",
                               ![g].title = IF step = "return" THEN TitleBy(g)
                                            ELSE NoTitle]
  /\ UNCHANGED <<items, titles, calls, tpc>>
  /\ TitlesFrame

\* The wait between two requests of the call of task g (time.sleep in its
\* thread) is over.
TaskWait(g) ==
  /\ tpc = "running"
  /\ g \in DOMAIN tasks
  /\ tasks[g].status = "waiting"
  /\ tasks' = [tasks EXCEPT ![g].status = "calling"]
  /\ UNCHANGED <<items, titles, calls, tpc>>
  /\ TitlesFrame

\* Rows whose titles have been yielded by the results taken so far.
Consumed(g) ==
  LET Upto[k \in 0..Len(tasks)] == IF k = 0 THEN 0 ELSE Upto[k - 1] + tasks[k].size
  IN Upto[g]

\* The result the consumer is at: results come out in submission order.
CurrentTask == CHOOSE g \in 1..(Len(tasks) + 1) :
                 /\ Consumed(g - 1) <= Len(titles)
                 /\ (g <= Len(tasks) => Len(titles) < Consumed(g))

\* Lines 227-231 with the results taken in completion order: the title of
\* any finished task is yielded next.
YieldTitleAnyDone ==
  /\ tpc = "running"
  /\ Len(titles) < Len(items)
  /\ \E g \in DOMAIN tasks :
       /\ tasks[g].status = "done"
       /\ titles' = Append(titles, tasks[g].title)
  /\ UNCHANGED <<items, tasks, calls, tpc>>
  /\ TitlesFrame

\* Lines 227-231: `yield title`, once per row of the group.
YieldTitle ==
  /\ tpc = "running"
  /\ CurrentTask \in DOMAIN tasks
  /\ tasks[CurrentTask].status = "done"
  /\ titles' = Append(titles, tasks[CurrentTask].title)
  /\ UNCHANGED <<items, tasks, calls, tpc>>
  /\ TitlesFrame

\* The result of a failed task re-raises its exception in the consumer.
TitlesFail ==
  /\ tpc = "running"
  /\ CurrentTask \in DOMAIN tasks
  /\ tasks[CurrentTask].status = "failed"
  /\ tpc' = "failed"
  /\ UNCHANGED <<items, tasks, titles, calls>>
  /\ TitlesFrame

\* Lines 357-358 and 412-415: zip(items2, titles), the i-th row paired with
\* the i-th title yielded.
TitledRows == [i \in DOMAIN titles |-> [item |-> items[i], title |-> titles[i]]]

\* Every group has been taken and every title yielded.
TitlesDone ==
  /\ tpc = "running"
  /\ Len(tasks) = Len(Groups(items))
  /\ Len(titles) = Len(items)
  /\ tpc' = "done"
  /\ UNCHANGED <<items, tasks, titles, calls>>
  /\ TitlesFrame

TitlesInit ==
  /\ RestIdle
  /\ PipeInit
  /\ RetryInit
  /\ LabelerInit
  /\ ClusterIdle
  /\ \E q \in ItemSeqs : TitlesBegin(q)

TitlesNext ==
  \/ \E order \in NextOrders : Dispatch(order)
  \/ \E g \in DOMAIN tasks : RunTask(g)
  \/ \E g \in DOMAIN tasks, o \in Outcomes : TaskRequest(g, o)
  \/ \E g \in DOMAIN tasks : TaskWait(g)
  \/ YieldTitle
  \/ TitlesFail
  \/ TitlesDone

TitlesSpec == TitlesInit /\ [][TitlesNext]_vars

----------------------------------------------------------------------------
(* compute_category_clusters, lines 375-392 *)

CATEGORY_MEMBERSHIP_PROB == "category_membership_prob"

\* The rows CategoryClustering reads, as ClusterTitles leaves them: every row
\* of one leaf cluster carries that cluster's title, or None when the cluster
\* got none; rows of a negative cluster have none.
CategoryRows ==
  {[cluster_id |-> c, cluster_title |-> t] :
     c \in -1..MaxLabel, t \in {NoTitle} \cup {TitleBy(g) : g \in 0..MaxLabel}}

CategoryRowSeqs ==
  {q \in SeqsUpTo(CategoryRows, MaxRows) :
     /\ Len(q) >= 1
     /\ \A i \in DOMAIN q :
          /\ q[i].cluster_id < 0 => q[i].cluster_title = NoTitle
          /\ q[i].cluster_title \in {NoTitle, TitleBy(q[i].cluster_id)}
     /\ \A i, j \in DOMAIN q :
          q[i].cluster_id = q[j].cluster_id => q[i].cluster_title = q[j].cluster_title}

\* Line 377 and the bridge's dense input: item.get(CLUSTER_TITLE) for every
\* item, those that are not None passed on in order.
RECURSIVE DensifyTitles(_)
DensifyTitles(q) ==
  IF q = <<>> THEN <<>>
  ELSE IF Head(q).cluster_title = NoTitle THEN DensifyTitles(Tail(q))
  ELSE <<Head(q).cluster_title>> \o DensifyTitles(Tail(q))

\* The position of row i among the rows that have a title.
DenseRank(q, i) == Cardinality({j \in 1..i : q[j].cluster_title # NoTitle})

CategoryBegin(q, r) ==
  /\ catRows = q
  /\ catRemote = r
  /\ catDense = <<>>
  /\ catOut = <<>>
  /\ catpc = "start"

CategoryFrame == UNCHANGED <<pipeVars, retryVars, labVars, clusterVars, titleVars, outVars, twinVars, selVars, cmbVars, aliasVars, flatVars, mgVars, noiseVars, paramVars, snipVars>>

\* _hdbscan_cluster without remote on the titles of the rows, one document
\* per row: with no title at all, all_vectors[0] raises; otherwise HDBSCAN
\* labels every document and the noise is reassigned (lines 456-545).
CategoryFit(f, soft) ==
  /\ catpc = "start"
  /\ ~catRemote
  /\ IF Len(DensifyTitles(catRows)) = 0
       THEN /\ catpc' = "failed"
            /\ UNCHANGED catDense
       ELSE /\ catDense' = LocalOutput(Reassign(f, soft))
            /\ catpc' = "emitting"
  /\ UNCHANGED <<catRows, catRemote, catOut>>
  /\ CategoryFrame

\* _hdbscan_cluster with remote: the response's clusters are yielded (lines
\* 450-454).
CategoryRemote(resp) ==
  /\ catpc = "start"
  /\ catRemote
  /\ catDense' = resp
  /\ catpc' = "emitting"
  /\ UNCHANGED <<catRows, catRemote, catOut>>
  /\ CategoryFrame

\* Whether the generator still has an item for a row after row i.
DenseLeft(q, i) == \E j \in (i + 1)..Len(q) : q[j].cluster_title # NoTitle

\* The row merged as compute_clusters merges it (line 330), with no default
\* for a row without cluster item.
CategoryItemNoDefaults(item, cluster_item) ==
  IF cluster_item = <<>> THEN item
  ELSE [category_id |-> cluster_item.cluster_id,
        category_membership_prob |-> cluster_item.cluster_membership_prob] @@ item

\* Lines 382-383: (cluster_item or {}).get(CLUSTER_ID, -1) and
\* (cluster_item or {}).get(CLUSTER_MEMBERSHIP_PROB, 0), set on the item.
CategoryItem(item, cluster_item) ==
  [category_id |-> IF cluster_item = <<>> THEN -1 ELSE cluster_item.cluster_id,
   category_membership_prob |->
     IF cluster_item = <<>> THEN 0 ELSE cluster_item.cluster_membership_prob]
  @@ item

\* Lines 381-384: the next row takes the id and membership of its cluster
\* item, -1 and 0 when the bridge gives None for it.
CategoryEmit ==
  /\ catpc = "emitting"
  /\ Len(catOut) < Len(catRows)
  /\ LET i == Len(catOut) + 1
         item == catRows[i]
         cluster_item == IF item.cluster_title # NoTitle
                           THEN catDense[DenseRank(catRows, i)] ELSE <<>>
     IN /\ item.cluster_title = NoTitle => (DenseLeft(catRows, Len(catOut)) \/ ~catRemote)
        /\ catOut' = Append(catOut, CategoryItem(item, cluster_item))
  /\ UNCHANGED <<catRows, catRemote, catDense, catpc>>
  /\ CategoryFrame

\* With remote, a resumption of the generator after the last item of the
\* response runs into the local steps on an empty list and raises.
CategoryFails ==
  /\ catpc = "emitting"
  /\ catRemote
  /\ Len(catOut) < Len(catRows)
  /\ ~DenseLeft(catRows, Len(catOut))
  /\ catpc' = "failed"
  /\ UNCHANGED <<catRows, catRemote, catDense, catOut>>
  /\ CategoryFrame

\* zip stops at the end of the rows.
CategoryDone ==
  /\ catpc = "emitting"
  /\ Len(catOut) = Len(catRows)
  /\ catpc' = "done"
  /\ UNCHANGED <<catRows, catRemote, catDense, catOut>>
  /\ CategoryFrame

CategoryInit ==
  /\ SnippetIdle
  /\ ParamIdle
  /\ NoiseIdle
  /\ CombineAliasIdle
  /\ FlatIdle
  /\ AliasIdle
  /\ CombineIdle
  /\ SelectIdle
  /\ OutputPathIdle
  /\ TaskIdle
  /\ PipeInit
  /\ RetryInit
  /\ LabelerInit
  /\ ClusterIdle
  /\ TitlesIdle
  /\ \E q \in CategoryRowSeqs, r \in BOOLEAN : CategoryBegin(q, r)

CategoryNext ==
  \/ \E f \in Fits(Len(DensifyTitles(catRows))) : \E soft \in SoftClusters(f) : CategoryFit(f, soft)
  \/ \E resp \in Responses(Len(DensifyTitles(catRows))) : CategoryRemote(resp)
  \/ CategoryEmit
  \/ CategoryFails
  \/ CategoryDone

CategorySpec == CategoryInit /\ [][CategoryNext]_vars

----------------------------------------------------------------------------
(* cluster_impl: the cluster output sub-path, lines 267-283, and the        *)
(* output_path of the five dataset calls, lines 314, 333-338, 360-366,     *)
(* 387-392, 417-438.                                                       *)

PATH_WILDCARD == "*"
FIELD_SUFFIX == "cluster"

PathParts == {"a", "b", PATH_WILDCARD}

\* Normalized paths: non-empty tuples of field names and wildcards.
Paths == {q \in SeqsUpTo(PathParts, MaxPathLen) : Len(q) >= 1}

\* '_'.join(parts)
RECURSIVE JoinParts(_)
JoinParts(parts) ==
  IF parts = <<>> THEN ""
  ELSE IF Len(parts) = 1 THEN parts[1]
  ELSE parts[1] \o "_" \o JoinParts(Tail(parts))

\* [p for p in parts if p != PATH_WILDCARD]
RECURSIVE NoWildcards(_)
NoWildcards(parts) ==
  IF parts = <<>> THEN <<>>
  ELSE IF Head(parts) = PATH_WILDCARD THEN NoWildcards(Tail(parts))
  ELSE <<Head(parts)>> \o NoWildcards(Tail(parts))

\* Lines 272-277 with the index taken before the test for the wildcard: the
\* (0-based) index of the first wildcard, of the last part when there is none.
SiblingIndexAtWildcard(path) ==
  IF \E i \in DOMAIN path : path[i] = PATH_WILDCARD
    THEN (CHOOSE i \in DOMAIN path :
            /\ path[i] = PATH_WILDCARD
            /\ \A j \in 1..(i - 1) : path[j] # PATH_WILDCARD) - 1
    ELSE Len(path) - 1

\* Lines 272-277: the (0-based) index of the last part before the first
\* wildcard, 0 when the path starts with a wildcard.
SiblingIndex(path) ==
  LET firstWild == IF \E i \in DOMAIN path : path[i] = PATH_WILDCARD
                     THEN CHOOSE i \in DOMAIN path :
                            /\ path[i] = PATH_WILDCARD
                            /\ \A j \in 1..(i - 1) : path[j] # PATH_WILDCARD
                     ELSE Len(path) + 1
  IN IF firstWild = 1 THEN 0 ELSE firstWild - 2

\* Lines 279-281 with the output written at the input path itself.
SiblingPathNoSuffix(path) ==
  LET index == SiblingIndex(path)
  IN SubSeq(path, 1, index) \o <<JoinParts(NoWildcards(SubSeq(path, index + 1, Len(path))))>>

\* Lines 279-281: (*parent, f'{sibling}__{FIELD_SUFFIX}').
SiblingPath(path) ==
  LET index == SiblingIndex(path)
      parent == SubSeq(path, 1, index)
      sibling == JoinParts(NoWildcards(SubSeq(path, index + 1, Len(path))))
  IN parent \o <<sibling \o "__" \o FIELD_SUFFIX>>

\* Whether path p is q or an ancestor of q.
IsPrefix(p, q) == Len(p) <= Len(q) /\ SubSeq(q, 1, Len(p)) = p

\* The dataset's writes land under the output_path of the call: a field at
\* q is changed by the run when some call wrote at q or above it.
Changed(q) == \E p \in written : IsPrefix(p, q)

\* cluster_impl is called with a path input and an optional output_path, or
\* with a function and an output_path (line 264-265).
OutputPathBegin(ip, op) ==
  /\ input_path = ip
  /\ output_path = op
  /\ cluster_output_path = <<>>
  /\ wpc = 0
  /\ written = {}

OutputPathFrame == UNCHANGED <<pipeVars, retryVars, labVars, clusterVars, titleVars, catVars, twinVars, selVars, cmbVars, aliasVars, flatVars, mgVars, noiseVars, paramVars, snipVars>>

\* Lines 268-283.
ResolveOutputPath ==
  /\ wpc = 0
  /\ cluster_output_path' = IF output_path # <<>> THEN output_path
                            ELSE SiblingPath(input_path)
  /\ wpc' = 1
  /\ UNCHANGED <<input_path, output_path, written>>
  /\ OutputPathFrame

\* A stage whose gate is open: dataset.map (stage 1) or dataset.transform
\* (stages 2-5) with output_path=cluster_output_path.
StageCall ==
  /\ wpc \in Stages
  /\ written' = written \cup {cluster_output_path}
  /\ wpc' = wpc + 1
  /\ UNCHANGED <<input_path, output_path, cluster_output_path>>
  /\ OutputPathFrame

\* A stage whose gate is closed: no call.
StageSkip ==
  /\ wpc \in Stages
  /\ wpc' = wpc + 1
  /\ UNCHANGED <<input_path, output_path, cluster_output_path, written>>
  /\ OutputPathFrame

OutputPathInit ==
  /\ SnippetIdle
  /\ ParamIdle
  /\ NoiseIdle
  /\ CombineAliasIdle
  /\ FlatIdle
  /\ AliasIdle
  /\ CombineIdle
  /\ SelectIdle
  /\ CategoryIdle
  /\ TaskIdle
  /\ PipeInit
  /\ RetryInit
  /\ LabelerInit
  /\ ClusterIdle
  /\ TitlesIdle
  /\ \E ip \in Paths \cup {<<>>}, op \in {<<>>, <<"a">>, <<"out">>} :
       /\ ip = <<>> => op # <<>>
       /\ OutputPathBegin(ip, op)

OutputPathNext ==
  \/ ResolveOutputPath
  \/ StageCall
  \/ StageSkip

OutputPathSpec == OutputPathInit /\ [][OutputPathNext]_vars

----------------------------------------------------------------------------
(* cluster_impl with and without a task_id, lines 246-249, 291-292,        *)
(* 318-321, 342-345, 370-373, 397-400, 440-441: two runs on the same       *)
(* dataset with the same arguments and the same environment.                *)

\* The path whose count the stage asks the dataset for when it has a
\* task_info: temp_text_path at line 345, category_title_path at line 400.
StatsPath(k) ==
  CASE k = 3 -> TEXT_COLUMN
    [] k = 5 -> CATEGORY_TITLE
    [] OTHER -> "none"

\* The `if task_info:` block of stage k raises: it calls dataset.stats on a
\* path the dataset does not have, and the dataset answers that with an
\* exception.
ProgressRaises(k, f, task, stats_raises) ==
  /\ task
  /\ StatsPath(k) # "none"
  /\ ~HasField(f, StatsPath(k))
  /\ stats_raises

\* Stage k of one run: its gate, the `if task_info:` block, the dataset call.
RunStage(k, run, s, a, task, stage_fails, stats_raises) ==
  IF run.error # "none" THEN run
  ELSE IF ~ShouldRun(k, s, a) THEN run
  ELSE IF ProgressRaises(k, run.fields, task, stats_raises)
    THEN [run EXCEPT !.error = "stats"]
  ELSE IF stage_fails
    THEN [fields |-> StageAborts(k, run.fields),
          executed |-> run.executed \cup {k},
          error |-> "stage"]
  ELSE [fields |-> StageWrites(k, run.fields),
        executed |-> run.executed \cup {k},
        error |-> "none"]

\* Dataset states cluster_impl leaves behind: nothing, a run stopped in
\* stage 2, 3, 4 or 5, a complete run, a complete run followed by a rerun.
TwinDatasets ==
  {{},
   {TEXT_COLUMN},
   {TEXT_COLUMN, CLUSTER_ID},
   {TEXT_COLUMN, CLUSTER_ID, CLUSTER_TITLE},
   {TEXT_COLUMN, CLUSTER_ID, CLUSTER_TITLE, CATEGORY_ID},
   {CLUSTER_ID, CLUSTER_TITLE, CATEGORY_ID, CATEGORY_TITLE},
   {TEXT_COLUMN, CLUSTER_ID, CLUSTER_TITLE, CATEGORY_ID, CATEGORY_TITLE}}

TaskBegin(f, a) ==
  /\ twinArgs = a
  /\ twinSchema = f
  /\ twinStage = 1
  /\ withTask = [fields |-> f, executed |-> {}, error |-> "none"]
  /\ withoutTask = [fields |-> f, executed |-> {}, error |-> "none"]

\* Both runs take their next stage in the same environment: the stage's
\* dataset call fails in both or in neither, and dataset.stats on a missing
\* path behaves one way.
TwinStep(stage_fails, stats_raises) ==
  /\ twinStage \in Stages
  /\ withTask' = RunStage(twinStage, withTask, twinSchema, twinArgs, TRUE,
                          stage_fails, stats_raises)
  /\ withoutTask' = RunStage(twinStage, withoutTask, twinSchema, twinArgs, FALSE,
                             stage_fails, stats_raises)
  /\ twinStage' = twinStage + 1
  /\ UNCHANGED <<twinArgs, twinSchema>>
  /\ UNCHANGED <<pipeVars, retryVars, labVars, clusterVars, titleVars, catVars, outVars, selVars, cmbVars, aliasVars, flatVars, mgVars, noiseVars, paramVars, snipVars>>

TaskInit ==
  /\ SnippetIdle
  /\ ParamIdle
  /\ NoiseIdle
  /\ CombineAliasIdle
  /\ FlatIdle
  /\ AliasIdle
  /\ CombineIdle
  /\ SelectIdle
  /\ CategoryIdle
  /\ OutputPathIdle
  /\ PipeInit
  /\ RetryInit
  /\ LabelerInit
  /\ ClusterIdle
  /\ TitlesIdle
  /\ \E f \in TwinDatasets, a \in [overwrite : BOOLEAN, recompute_titles : BOOLEAN] :
       TaskBegin(f, a)

TaskNext == \E stage_fails \in BOOLEAN, stats_raises \in BOOLEAN :
              TwinStep(stage_fails, stats_raises)

TaskSpec == TaskInit /\ [][TaskNext]_vars

----------------------------------------------------------------------------
(* Dataset.select_rows(columns, offset, limit) without combine_columns, as  *)
(* the spec gives it and dataset_test.py lines 324-338 exercise it: the     *)
(* rows come in dataset order, `offset` rows are passed over and at most    *)
(* `limit` rows are yielded.                                                *)

\* The row at 0-based position p of the test's dataset:
\* [{UUID_COLUMN: str(i)} for i in range(10, 20)], continued past 19.
RowAt(p) == 10 + p

\* The cursor yields one row too many.
MayTakeOneMore(pos, offset, limit, taken) == pos >= offset /\ taken <= limit

\* Whether the row under the cursor is yielded.
MayTake(pos, offset, limit, taken) == pos >= offset /\ taken < limit

SelectBegin(total, offset, limit) ==
  /\ selTotal = total
  /\ selOffset = offset
  /\ selLimit = limit
  /\ selPos = 0
  /\ selOut = <<>>
  /\ selpc = "reading"

SelectFrame == UNCHANGED <<pipeVars, retryVars, labVars, clusterVars, titleVars, catVars, outVars, twinVars, cmbVars, aliasVars, flatVars, mgVars, noiseVars, paramVars, snipVars>>

\* A row before the offset is passed over.
SkipRow ==
  /\ selpc = "reading"
  /\ selPos < selTotal
  /\ selPos < selOffset
  /\ selPos' = selPos + 1
  /\ UNCHANGED <<selTotal, selOffset, selLimit, selOut, selpc>>
  /\ SelectFrame

\* A row from the offset on is yielded, while the limit allows.
TakeRow ==
  /\ selpc = "reading"
  /\ selPos < selTotal
  /\ MayTake(selPos, selOffset, selLimit, Len(selOut))
  /\ selOut' = Append(selOut, RowAt(selPos))
  /\ selPos' = selPos + 1
  /\ UNCHANGED <<selTotal, selOffset, selLimit, selpc>>
  /\ SelectFrame

\* The rows are exhausted or the limit is reached: the sequence ends.
SelectEnd ==
  /\ selpc = "reading"
  /\ selPos >= selTotal \/ (selPos >= selOffset /\ ~MayTake(selPos, selOffset, selLimit, Len(selOut)))
  /\ selpc' = "done"
  /\ UNCHANGED <<selTotal, selOffset, selLimit, selPos, selOut>>
  /\ SelectFrame

SelectInit ==
  /\ SnippetIdle
  /\ ParamIdle
  /\ NoiseIdle
  /\ CombineAliasIdle
  /\ FlatIdle
  /\ AliasIdle
  /\ CombineIdle
  /\ CategoryIdle
  /\ OutputPathIdle
  /\ TaskIdle
  /\ PipeInit
  /\ RetryInit
  /\ LabelerInit
  /\ ClusterIdle
  /\ TitlesIdle
  /\ \E total \in 0..MaxSelRows, offset \in 0..(MaxSelRows + 1),
        limit \in 0..(MaxSelRows + 1) \cup {200} :
       SelectBegin(total, offset, limit)

SelectNext ==
  \/ SkipRow
  \/ TakeRow
  \/ SelectEnd

SelectSpec == SelectInit /\ [][SelectNext]_vars

----------------------------------------------------------------------------
(* Dataset.select_rows(columns, combine_columns=True), as the spec gives    *)
(* it and dataset_test.py lines 263-289 exercise it: the bare star expands  *)
(* to the top-level fields, every resolved path is projected out of the     *)
(* row in its nested shape, and the projections are merged.                 *)

\* A row is a tree: a leaf value, or a record of named sub-trees.
Leaf(v) == [kind |-> "leaf", value |-> v]
Rec(f) == [kind |-> "rec", fields |-> f]

VALUE_KEY == "__value__"            \* the key of the value of an enriched field

TopNames == {"name", "info"}
InnerNames == {"age", "zip"}

\* The trees of depth at most d below a field.
RECURSIVE Trees(_)
Trees(d) ==
  IF d = 1 THEN {Leaf(40)}
  ELSE {Leaf(40)} \cup
       UNION {{Rec(f) : f \in [S -> Trees(d - 1)]} : S \in SUBSET InnerNames \ {{}}}

\* The rows: records of top-level fields (the row id is always included and
\* left out here).
CombineItems ==
  UNION {{Rec(f) : f \in [S -> Trees(MaxDepth)]} : S \in SUBSET TopNames \ {{}}}

\* The paths of the schema of a row: one for every field at every depth.
RECURSIVE TreePaths(_)
TreePaths(node) ==
  IF node.kind = "leaf" THEN {}
  ELSE UNION {{<<k>>} \cup {<<k>> \o p : p \in TreePaths(node.fields[k])} :
                k \in DOMAIN node.fields}

\* The part of the row at `path`, under its parent chain.
RECURSIVE Project(_, _)
Project(node, path) ==
  IF path = <<>> THEN node
  ELSE Rec([k \in {path[1]} |-> Project(node.fields[path[1]], Tail(path))])

\* The merge in which a later projection replaces an earlier one with the
\* same top-level field.
RECURSIVE ShallowMerge(_, _)
ShallowMerge(a, b) ==
  IF a.kind = "rec" /\ b.kind = "rec"
    THEN Rec([k \in DOMAIN a.fields \cup DOMAIN b.fields |->
                IF k \in DOMAIN b.fields THEN b.fields[k] ELSE a.fields[k]])
    ELSE b

\* Overlapping projections are merged back into the nested shape: records
\* are merged field by field, at every depth; a value that meets the outputs
\* of signals computed over it goes under the value key, next to them.
RECURSIVE DeepMerge(_, _)
DeepMerge(a, b) ==
  IF a.kind = "rec" /\ b.kind = "rec"
    THEN Rec([k \in DOMAIN a.fields \cup DOMAIN b.fields |->
                IF k \in DOMAIN a.fields /\ k \in DOMAIN b.fields
                  THEN DeepMerge(a.fields[k], b.fields[k])
                  ELSE IF k \in DOMAIN a.fields THEN a.fields[k] ELSE b.fields[k]])
  ELSE IF a.kind = "leaf" /\ b.kind = "rec" THEN DeepMerge(Rec((VALUE_KEY :> a)), b)
  ELSE IF a.kind = "rec" /\ b.kind = "leaf" THEN DeepMerge(a, Rec((VALUE_KEY :> b)))
  ELSE b

\* The top-level fields of the row, in schema order.
RECURSIVE TopLevelPaths(_, _)
TopLevelPaths(node, order) ==
  IF order = <<>> THEN <<>>
  ELSE IF Head(order) \in DOMAIN node.fields
    THEN <<<<Head(order)>>>> \o TopLevelPaths(node, Tail(order))
    ELSE TopLevelPaths(node, Tail(order))

\* The columns with every bare star replaced by the top-level fields.
RECURSIVE ExpandStar(_, _)
ExpandStar(columns, node) ==
  IF columns = <<>> THEN <<>>
  ELSE IF Head(columns) = <<PATH_WILDCARD>>
    THEN TopLevelPaths(node, <<"name", "info">>) \o ExpandStar(Tail(columns), node)
    ELSE <<Head(columns)>> \o ExpandStar(Tail(columns), node)

\* select_rows(['*'], ...), select_rows(['*', path], ...) for a path of the
\* schema, and a path alone.
CombineRequests(node) ==
  {<<<<PATH_WILDCARD>>>>}
    \cup {<<<<PATH_WILDCARD>>, p>> : p \in TreePaths(node)}
    \cup {<<p>> : p \in TreePaths(node)}

CombineBegin(item, columns) ==
  /\ cmbItem = item
  /\ cmbRequest = columns
  /\ cmbCols = <<>>
  /\ cmbOut = Rec(<<>>)
  /\ cmbpc = "resolve"

CombineFrame == UNCHANGED <<pipeVars, retryVars, labVars, clusterVars, titleVars, catVars, outVars, twinVars, selVars, aliasVars, flatVars, mgVars, noiseVars, paramVars, snipVars>>

\* The Path Resolver turns the columns into paths.
ResolveColumns ==
  /\ cmbpc = "resolve"
  /\ cmbCols' = ExpandStar(cmbRequest, cmbItem)
  /\ cmbpc' = "merge"
  /\ UNCHANGED <<cmbItem, cmbRequest, cmbOut>>
  /\ CombineFrame

\* The next path is fetched and merged into the row.
MergeColumn ==
  /\ cmbpc = "merge"
  /\ cmbCols # <<>>
  /\ cmbOut' = DeepMerge(cmbOut, Project(cmbItem, Head(cmbCols)))
  /\ cmbCols' = Tail(cmbCols)
  /\ UNCHANGED <<cmbItem, cmbRequest, cmbpc>>
  /\ CombineFrame

\* Every path is merged: the row is yielded.
CombineDone ==
  /\ cmbpc = "merge"
  /\ cmbCols = <<>>
  /\ cmbpc' = "done"
  /\ UNCHANGED <<cmbItem, cmbRequest, cmbCols, cmbOut>>
  /\ CombineFrame

CombineInit ==
  /\ SnippetIdle
  /\ ParamIdle
  /\ NoiseIdle
  /\ CombineAliasIdle
  /\ FlatIdle
  /\ AliasIdle
  /\ CategoryIdle
  /\ OutputPathIdle
  /\ TaskIdle
  /\ SelectIdle
  /\ PipeInit
  /\ RetryInit
  /\ LabelerInit
  /\ ClusterIdle
  /\ TitlesIdle
  /\ \E item \in CombineItems : \E columns \in CombineRequests(item) :
       CombineBegin(item, columns)

CombineNext ==
  \/ ResolveColumns
  \/ MergeColumn
  \/ CombineDone

CombineSpec == CombineInit /\ [][CombineNext]_vars

----------------------------------------------------------------------------
(* The Path Resolver's dotted strings: the alias of a canonical path, as    *)
(* the keys dataset_test.py expects show it (lines 174-181, 187-194,        *)
(* 795-806), and the parsing of a dotted string, as the spec gives it and   *)
(* the same tests exercise it.  Strings are sequences of characters.        *)

DOT == "."
QuoteChars == {"'", "\""}
PartChars == {"a", DOT} \cup QuoteChars

\* The parts of a path: non-empty strings, and the wildcard.
PathPartStrings ==
  {q \in SeqsUpTo(PartChars, MaxPartLen) : Len(q) >= 1} \cup {<<PATH_WILDCARD>>}

CanonicalPaths == {q \in SeqsUpTo(PathPartStrings, MaxAliasParts) : Len(q) >= 1}

\* The alias of a path: its parts joined with dots, as they are
\* (('people.new', '*', 'name') has the alias 'people.new.*.name').
RECURSIVE DottedAlias(_)
DottedAlias(path) ==
  IF Len(path) = 1 THEN path[1]
  ELSE path[1] \o <<DOT>> \o DottedAlias(Tail(path))

\* Dotted-string parsing: the string is split on its dots, except inside a
\* part wrapped in quotes, which is taken literally without its quotes; a
\* quote inside a part is an ordinary character.
RECURSIVE ParseFrom(_, _, _, _, _)
ParseFrom(s, part, quote, atStart, parts) ==
  IF s = <<>> THEN Append(parts, part)
  ELSE IF quote # ""
    THEN IF Head(s) = quote
           THEN ParseFrom(Tail(s), part, "", FALSE, parts)
           ELSE ParseFrom(Tail(s), Append(part, Head(s)), quote, FALSE, parts)
  ELSE IF Head(s) = DOT
    THEN ParseFrom(Tail(s), <<>>, "", TRUE, Append(parts, part))
  ELSE IF Head(s) \in QuoteChars /\ atStart
    THEN ParseFrom(Tail(s), part, Head(s), FALSE, parts)
  ELSE ParseFrom(Tail(s), Append(part, Head(s)), "", FALSE, parts)

ParseDotted(s) == ParseFrom(s, <<>>, "", TRUE, <<>>)

AliasBegin(path) ==
  /\ canonical = path
  /\ alias = <<>>
  /\ reparsed = <<>>
  /\ apc = "resolve"

AliasFrame == UNCHANGED <<pipeVars, retryVars, labVars, clusterVars, titleVars, catVars, outVars, twinVars, selVars, cmbVars, flatVars, mgVars, noiseVars, paramVars, snipVars>>

\* The resolver gives the path its default alias.
MakeAlias ==
  /\ apc = "resolve"
  /\ alias' = DottedAlias(canonical)
  /\ apc' = "parse"
  /\ UNCHANGED <<canonical, reparsed>>
  /\ AliasFrame

\* The alias is given back to the resolver as a dotted string.
ParseAlias ==
  /\ apc = "parse"
  /\ reparsed' = ParseDotted(alias)
  /\ apc' = "done"
  /\ UNCHANGED <<canonical, alias>>
  /\ AliasFrame

AliasInit ==
  /\ SnippetIdle
  /\ ParamIdle
  /\ NoiseIdle
  /\ CombineAliasIdle
  /\ FlatIdle
  /\ CategoryIdle
  /\ OutputPathIdle
  /\ TaskIdle
  /\ SelectIdle
  /\ CombineIdle
  /\ PipeInit
  /\ RetryInit
  /\ LabelerInit
  /\ ClusterIdle
  /\ TitlesIdle
  /\ \E path \in CanonicalPaths : AliasBegin(path)

AliasNext ==
  \/ MakeAlias
  \/ ParseAlias

AliasSpec == AliasInit /\ [][AliasNext]_vars

----------------------------------------------------------------------------
(* Dataset.select_rows(columns) without combine_columns: the validation of  *)
(* the paths against the schema at the call, as the spec gives it and       *)
(* dataset_test.py lines 751-771 exercise it, and the flat rows with one    *)
(* key for every column, as lines 198-260 expect them.                      *)

\* A repeated field of the schema, with the field of its elements.
Rep(e) == [kind |-> "rep", elem |-> e]

\* The schema of the rows: the fields of test_select_star (name, info.age)
\* and a repeated field as text2 of test_invalid_column_paths.
FlatSchema ==
  Rec([name |-> Leaf("string"),
       info |-> Rec([age |-> Leaf("int32")]),
       text2 |-> Rep(Rec([len |-> Leaf("int32")]))])

\* The path parts that are a concrete index ('4' of ('text2', '4', ...)).
IndexParts == {"4"}

\* The paths of a schema: a field name under a record, the wildcard under a
\* repeated field.
RECURSIVE SchemaPaths(_)
SchemaPaths(node) ==
  IF node.kind = "leaf" THEN {}
  ELSE IF node.kind = "rep"
    THEN {<<PATH_WILDCARD>>} \cup {<<PATH_WILDCARD>> \o p : p \in SchemaPaths(node.elem)}
  ELSE UNION {{<<k>>} \cup {<<k>> \o p : p \in SchemaPaths(node.fields[k])} :
                k \in DOMAIN node.fields}

\* The walk that takes an index under a repeated field for a missing part.
RECURSIVE WalkSchemaNoIndexError(_, _)
WalkSchemaNoIndexError(node, path) ==
  IF path = <<>> THEN [kind |-> "none", part |-> ""]
  ELSE IF node.kind = "rep" /\ Head(path) = PATH_WILDCARD
    THEN WalkSchemaNoIndexError(node.elem, Tail(path))
  ELSE IF node.kind = "rec" /\ Head(path) \in DOMAIN node.fields
    THEN WalkSchemaNoIndexError(node.fields[Head(path)], Tail(path))
  ELSE [kind |-> "path_not_found", part |-> Head(path)]

\* Path validation: the path is walked against the schema part by part; a
\* part that is absent gives the path-not-found error naming it, an index
\* under a repeated field the repeated-field-index error.
RECURSIVE WalkSchema(_, _)
WalkSchema(node, path) ==
  IF path = <<>> THEN [kind |-> "none", part |-> ""]
  ELSE IF node.kind = "rep"
    THEN IF Head(path) = PATH_WILDCARD THEN WalkSchema(node.elem, Tail(path))
         ELSE IF Head(path) \in IndexParts
           THEN [kind |-> "repeated_index", part |-> Head(path)]
         ELSE [kind |-> "path_not_found", part |-> Head(path)]
  ELSE IF node.kind = "rec" /\ Head(path) \in DOMAIN node.fields
    THEN WalkSchema(node.fields[Head(path)], Tail(path))
  ELSE [kind |-> "path_not_found", part |-> Head(path)]

\* The default alias of a column: the parts of its path joined with dots
\* (('info', 'age') comes out under 'info.age').
FlatAlias(path) ==
  LET J[i \in 1..Len(path)] == IF i = 1 THEN path[1] ELSE J[i - 1] \o "." \o path[i]
  IN J[Len(path)]

\* The suffixes of the columns whose alias is taken already.
Suffixes == <<"_2", "_3", "_4">>

\* The key with no suffix: the alias as it is.
UniqueKeyNoSuffix(a, taken) == a

\* The key of a column with alias a after the keys in `taken`: the alias,
\* or the alias with the first suffix that is not taken.
UniqueKey(a, taken) ==
  IF a \notin taken THEN a
  ELSE a \o Suffixes[CHOOSE k \in DOMAIN Suffixes :
                       /\ (a \o Suffixes[k]) \notin taken
                       /\ \A j \in 1..(k - 1) : (a \o Suffixes[j]) \in taken]

\* The columns with their keys, in request order.
FlatKeys(cols) ==
  LET K[i \in 0..Len(cols)] ==
        IF i = 0 THEN <<>>
        ELSE Append(K[i - 1],
                    [key |-> UniqueKey(FlatAlias(cols[i]),
                                       {K[i - 1][j].key : j \in DOMAIN K[i - 1]}),
                     path |-> cols[i]])
  IN K[Len(cols)]

\* Row r as a dict: the columns assigned in order under their keys, each
\* with the value fetched for it (here the row and the path it is read at).
FlatRow(r, cols) ==
  [k \in {cols[i].key : i \in DOMAIN cols} |->
     LET last == CHOOSE i \in DOMAIN cols :
                   /\ cols[i].key = k
                   /\ \A j \in (i + 1)..Len(cols) : cols[j].key # k
     IN [row |-> r, at |-> cols[last].path]]

FlatFrame == UNCHANGED <<pipeVars, retryVars, labVars, clusterVars, titleVars, catVars, outVars, twinVars, selVars, cmbVars, aliasVars, mgVars, noiseVars, paramVars, snipVars>>

\* The call: every bare star becomes the top-level fields, every other
\* column is validated, and the first invalid one raises; otherwise the
\* columns get their keys.
SelectCall ==
  /\ flpc = "call"
  /\ LET E[i \in 0..Len(flRequest)] ==
           IF i = 0 THEN <<>>
           ELSE E[i - 1] \o (IF flRequest[i] = <<PATH_WILDCARD>>
                               THEN TopLevelPaths(FlatSchema, <<"name", "info", "text2">>)
                               ELSE <<flRequest[i]>>)
         cols == E[Len(flRequest)]
         bad == {i \in DOMAIN cols : WalkSchema(FlatSchema, cols[i]).kind # "none"}
     IN IF bad = {}
          THEN /\ flCols' = FlatKeys(cols)
               /\ flpc' = "rows"
               /\ UNCHANGED flError
          ELSE /\ flError' = WalkSchema(FlatSchema,
                                        cols[CHOOSE i \in bad : \A j \in bad : i <= j])
               /\ flpc' = "raised"
               /\ UNCHANGED flCols
  /\ UNCHANGED <<flRequest, flOut>>
  /\ FlatFrame

\* The next row of the dataset is yielded.
EmitFlatRow ==
  /\ flpc = "rows"
  /\ Len(flOut) < MaxFlatRows
  /\ flOut' = Append(flOut, FlatRow(Len(flOut) + 1, flCols))
  /\ UNCHANGED <<flRequest, flCols, flError, flpc>>
  /\ FlatFrame

\* The rows are exhausted.
FlatDone ==
  /\ flpc = "rows"
  /\ Len(flOut) = MaxFlatRows
  /\ flpc' = "done"
  /\ UNCHANGED <<flRequest, flCols, flError, flOut>>
  /\ FlatFrame

\* The requests: one column, a path of any parts, as the tests of the
\* invalid paths give; the star alone; the star or a field with one or two
\* more columns of the schema.
FlatInit ==
  /\ SnippetIdle
  /\ ParamIdle
  /\ NoiseIdle
  /\ CombineAliasIdle
  /\ CategoryIdle
  /\ OutputPathIdle
  /\ TaskIdle
  /\ SelectIdle
  /\ CombineIdle
  /\ AliasIdle
  /\ PipeInit
  /\ RetryInit
  /\ LabelerInit
  /\ ClusterIdle
  /\ TitlesIdle
  /\ flCols = <<>>
  /\ flError = [kind |-> "none", part |-> ""]
  /\ flOut = <<>>
  /\ flpc = "call"
  /\ flRequest \in
       {<<p>> : p \in {q \in SeqsUpTo({"name", "info", "age", "text2", "len",
                                        PATH_WILDCARD, "4", "invalid"}, MaxPathLen) :
                         Len(q) >= 1}}
       \cup {<<first>> \o more :
               first \in {<<PATH_WILDCARD>>, <<"info">>},
               more \in SeqsUpTo(SchemaPaths(FlatSchema), 2)}

FlatNext ==
  \/ SelectCall
  \/ EmitFlatRow
  \/ FlatDone

FlatSpec == FlatInit /\ [][FlatNext]_vars

----------------------------------------------------------------------------
(* Dataset.select_rows(columns, combine_columns=True) on Column objects,    *)
(* with an alias or a signal UDF, as the spec gives it and dataset_test.py  *)
(* lines 379-466 and 548-683 exercise it.  The request is run twice, as it  *)
(* is and with its aliases taken away.                                      *)

NoAlias == ""                       \* Python's None as an alias

\* The rows: a text alone; a text enriched by a computed signal; a text and,
\* apart from it, a signal output under extra.text.
AliasedItems ==
  {Rec([text |-> Leaf("hello")]),
   Rec([text |-> Rec((VALUE_KEY :> Leaf("hello"))
                       @@ [test_signal |-> Rec([len |-> Leaf(5), flen |-> Leaf(5)])])]),
   Rec([text |-> Leaf("hello"),
        extra |-> Rec([text |-> Rec([length_signal |-> Leaf(5)])])])}

\* The projection placed under the alias of the column when it has one.
CombineColumnUnderAlias(item, col) ==
  IF col.alias # NoAlias THEN Rec((col.alias :> Project(item, col.path)))
  ELSE Project(item, col.path)

\* What a column contributes to the combined row: the part of the row at
\* its path, under its parent chain; for a signal UDF (LengthSignal here)
\* its output under the signal's name, under the path it is computed over.
\* The alias is not looked at.
CombineColumn(item, col) ==
  IF col.udf
    THEN LET p == col.path
             W[i \in 0..Len(p)] ==
               IF i = 0 THEN Rec([length_signal |-> Leaf(5)])
               ELSE Rec((p[Len(p) - i + 1] :> W[i - 1]))
         IN W[Len(p)]
    ELSE Project(item, col.path)

CombineAliasFrame == UNCHANGED <<pipeVars, retryVars, labVars, clusterVars, titleVars, catVars, outVars, twinVars, selVars, cmbVars, aliasVars, flatVars, noiseVars, paramVars, snipVars>>

\* The next column is fetched and merged into the row.
MergeAliased ==
  /\ mgpc = "merge"
  /\ mgN < Len(mgRequest)
  /\ mgOut' = DeepMerge(mgOut, CombineColumn(mgItem, mgRequest[mgN + 1]))
  /\ mgPlain' = DeepMerge(mgPlain,
                          CombineColumn(mgItem, [mgRequest[mgN + 1] EXCEPT !.alias = NoAlias]))
  /\ mgN' = mgN + 1
  /\ UNCHANGED <<mgItem, mgRequest, mgpc>>
  /\ CombineAliasFrame

\* Every column is merged: the row is yielded.
AliasedDone ==
  /\ mgpc = "merge"
  /\ mgN = Len(mgRequest)
  /\ mgpc' = "done"
  /\ UNCHANGED <<mgItem, mgRequest, mgN, mgOut, mgPlain>>
  /\ CombineAliasFrame

\* The requests: up to MaxColumns columns, each a path of the row with or
\* without an alias, or the signal UDF over the text.
CombineAliasInit ==
  /\ SnippetIdle
  /\ ParamIdle
  /\ NoiseIdle
  /\ CategoryIdle
  /\ OutputPathIdle
  /\ TaskIdle
  /\ SelectIdle
  /\ CombineIdle
  /\ AliasIdle
  /\ FlatIdle
  /\ PipeInit
  /\ RetryInit
  /\ LabelerInit
  /\ ClusterIdle
  /\ TitlesIdle
  /\ mgItem \in AliasedItems
  /\ mgRequest \in
       {q \in SeqsUpTo(
                [path : {p \in TreePaths(mgItem) : \A i \in DOMAIN p : p[i] # VALUE_KEY},
                 alias : {NoAlias, "hello"}, udf : {FALSE}]
                \cup [path : {<<"text">>}, alias : {NoAlias, "ignored"}, udf : {TRUE}],
                MaxColumns) : Len(q) >= 1}
  /\ mgN = 0
  /\ mgOut = Rec(<<>>)
  /\ mgPlain = Rec(<<>>)
  /\ mgpc = "merge"

CombineAliasNext ==
  \/ MergeAliased
  \/ AliasedDone

CombineAliasSpec == CombineAliasInit /\ [][CombineAliasNext]_vars

----------------------------------------------------------------------------
(* _hdbscan_cluster, lines 510-539: the reassignment of the noise points,   *)
(* on its own, from the fitted clustering to the labels it leaves.  The     *)
(* batch of line 524 is also taken small, so that the noise points of a few *)
(* vectors span several batches.                                            *)

\* Lines 510-539 on a fitted clustering.
ReassignNoise ==
  /\ nzpc = "fitted"
  /\ nzOut' = ReassignWith(nzFit, nzSoft, nzBatch)
  /\ nzpc' = "done"
  /\ UNCHANGED <<nzFit, nzSoft, nzBatch>>
  /\ UNCHANGED <<pipeVars, retryVars, labVars, clusterVars, titleVars, catVars, outVars, twinVars, selVars, cmbVars, aliasVars, flatVars, mgVars, paramVars, snipVars>>

NoiseInit ==
  /\ SnippetIdle
  /\ ParamIdle
  /\ CategoryIdle
  /\ OutputPathIdle
  /\ TaskIdle
  /\ SelectIdle
  /\ CombineIdle
  /\ AliasIdle
  /\ FlatIdle
  /\ CombineAliasIdle
  /\ PipeInit
  /\ RetryInit
  /\ LabelerInit
  /\ ClusterIdle
  /\ TitlesIdle
  /\ \E n \in 1..MaxRows : nzFit \in Fits(n)
  /\ nzSoft \in SoftClusters(nzFit)
  /\ nzBatch \in {1, 2, BATCH_SOFT_CLUSTER_NOISE}
  /\ nzOut = <<>>
  /\ nzpc = "fitted"

NoiseNext == ReassignNoise

NoiseSpec == NoiseInit /\ [][NoiseNext]_vars

----------------------------------------------------------------------------
(* _hdbscan_cluster, lines 477-508: the parameters UMAP and HDBSCAN are     *)
(* built with, from the number of vectors, their dimension and the          *)
(* min_cluster_size of the call.                                            *)


\* n_neighbors with the number of vectors itself as the limit.
NNeighborsOfAll(n) == Min(30, n)

\* Line 479: n_neighbors = min(30, len(all_vectors) - 1).
NNeighbors(n) == Min(30, n - 1)

ParamFrame == UNCHANGED <<pipeVars, retryVars, labVars, clusterVars, titleVars, catVars, outVars, twinVars, selVars, cmbVars, aliasVars, flatVars, mgVars, noiseVars, snipVars>>

\* Lines 477-488: UMAP is built and fitted when UMAP_DIM is below both the
\* dimension and the number of the vectors.
ReduceDim ==
  /\ pmpc = "embedded"
  /\ IF UMAP_DIM < pmDim /\ UMAP_DIM < pmN
       THEN /\ pmCalls' = Append(pmCalls, [fn |-> "UMAP",
                                           n_components |-> UMAP_DIM,
                                           n_neighbors |-> NNeighbors(pmN)])
       ELSE UNCHANGED pmCalls
  /\ pmpc' = "reduced"
  /\ UNCHANGED <<pmN, pmDim, pmMinSize>>
  /\ ParamFrame

\* Lines 499-508: HDBSCAN is built and fitted.
FitClusterer ==
  /\ pmpc = "reduced"
  /\ LET min_cluster_size == Min(pmMinSize, pmN)
     IN pmCalls' = Append(pmCalls, [fn |-> "HDBSCAN",
                                    min_cluster_size |-> min_cluster_size,
                                    min_samples |-> min_cluster_size - 1])
  /\ pmpc' = "done"
  /\ UNCHANGED <<pmN, pmDim, pmMinSize>>
  /\ ParamFrame

\* At least one vector, of a dimension below, at and above UMAP_DIM (512 is
\* the embedding's), and a min_cluster_size below, at and above the default.
ParamInit ==
  /\ SnippetIdle
  /\ CategoryIdle
  /\ OutputPathIdle
  /\ TaskIdle
  /\ SelectIdle
  /\ CombineIdle
  /\ AliasIdle
  /\ FlatIdle
  /\ CombineAliasIdle
  /\ NoiseIdle
  /\ PipeInit
  /\ RetryInit
  /\ LabelerInit
  /\ ClusterIdle
  /\ TitlesIdle
  /\ pmN \in 1..MaxVectors
  /\ pmDim \in {1, UMAP_DIM, UMAP_DIM + 1, 512}
  /\ pmMinSize \in {1, 2, 5, 10}
  /\ pmCalls = <<>>
  /\ pmpc = "embedded"

ParamNext ==
  \/ ReduceDim
  \/ FitClusterer

ParamSpec == ParamInit /\ [][ParamNext]_vars

----------------------------------------------------------------------------
(* _snippet_to_prefix_and_suffix, lines 79-84, on documents as sequences of *)
(* character codes.                                                         *)

SHORTEN_LEN == 400

SPACE == 32                         \* the code of the space
LINE_FEED == 10

\* The characters str.strip() removes: those str.isspace() holds of.
Whitespace ==
  (9..13) \cup (28..32) \cup {133, 160, 5760} \cup (8192..8202)
    \cup {8232, 8233, 8239, 8287, 12288}

\* '\n...\n': a newline, three dots, a newline.
SnippetMarker == <<LINE_FEED, 46, 46, 46, LINE_FEED>>

\* text.strip(): the document without the whitespace at its two ends.
Strip(text) ==
  LET inked == {i \in DOMAIN text : text[i] \notin Whitespace}
  IN IF inked = {} THEN <<>>
     ELSE SubSeq(text, CHOOSE i \in inked : \A j \in inked : i <= j,
                       CHOOSE i \in inked : \A j \in inked : j <= i)

\* The snippet of the document as it comes, not stripped.
snippet_without_strip(text) ==
  IF Len(text) <= SHORTEN_LEN THEN text
  ELSE LET prefix_len == SHORTEN_LEN \div 2
       IN SubSeq(text, 1, prefix_len) \o SnippetMarker
            \o SubSeq(text, Len(text) - prefix_len + 1, Len(text))

\* Lines 79-84.
snippet_to_prefix_and_suffix(text) ==
  LET stripped == Strip(text)
  IN IF Len(stripped) <= SHORTEN_LEN THEN stripped
     ELSE LET prefix_len == SHORTEN_LEN \div 2
          IN SubSeq(stripped, 1, prefix_len) \o SnippetMarker
               \o SubSeq(stripped, Len(stripped) - prefix_len + 1, Len(stripped))

\* Line 96: the snippet of a document of the request.
MakeSnippet ==
  /\ snpc = "doc"
  /\ snOut' = snippet_to_prefix_and_suffix(snText)
  /\ snpc' = "done"
  /\ UNCHANGED <<snText, snLead, snTrail>>
  /\ UNCHANGED <<pipeVars, retryVars, labVars, clusterVars, titleVars, catVars, outVars, twinVars, selVars, cmbVars, aliasVars, flatVars, mgVars, noiseVars, paramVars>>

\* The documents: up to two whitespace characters of one kind, up to
\* MaxTextLen characters that begin and end with no whitespace (the i-th has
\* the code 1000 + i, the second is a space when there are three or more),
\* and up to two whitespace characters of another kind.
SnippetInit ==
  /\ CategoryIdle
  /\ OutputPathIdle
  /\ TaskIdle
  /\ SelectIdle
  /\ CombineIdle
  /\ AliasIdle
  /\ FlatIdle
  /\ CombineAliasIdle
  /\ NoiseIdle
  /\ ParamIdle
  /\ PipeInit
  /\ RetryInit
  /\ LabelerInit
  /\ ClusterIdle
  /\ TitlesIdle
  /\ snLead \in 0..2
  /\ snTrail \in 0..2
  /\ \E n \in 0..MaxTextLen :
       \E ws \in {<<SPACE, LINE_FEED>>, <<LINE_FEED, SPACE>>, <<9, 12288>>} :
         snText = [i \in 1..snLead |-> ws[1]]
                    \o [i \in 1..n |-> IF i = 2 /\ n >= 3 THEN SPACE ELSE 1000 + i]
                    \o [i \in 1..snTrail |-> ws[2]]
  /\ snOut = <<>>
  /\ snpc = "doc"

SnippetNext == MakeSnippet

SnippetSpec == SnippetInit /\ [][SnippetNext]_vars

----------------------------------------------------------------------------
(* Claims *)

NoFlags == ~args.overwrite /\ ~args.recompute_titles
Decided == Started \cup Skipped

\* C1: a stage is skipped exactly when its target field is in the dataset
\* schema and no flag forces it: overwrite forces all five stages,
\* recompute_titles forces stages 3, 4 and 5 only.
C1_SkipIffExistsAndNotForced ==
  \A k \in Decided :
    (k \in Skipped) <=>
      /\ k \in sawTarget
      /\ ~args.overwrite
      /\ ~(args.recompute_titles /\ k \in {3, 4, 5})

C1_Witness ==
  /\ args.recompute_titles /\ ~args.overwrite
  /\ 1 \in Skipped /\ 2 \in Skipped
  /\ 3 \in Started /\ 3 \in sawTarget
  /\ 5 \in Ended

\* C2: after a run that completed all five stages, a run with the same input
\* and no flag executes no stage.
C2_RerunExecutesNothing ==
  (/\ prev.completed = Stages
   /\ prev.input = args.input
   /\ NoFlags
   /\ error # "config")
  => Started = {}

\* C3: after a run that failed in stage f, a run with no flag
\* executes f over all rows, executes every later stage, and skips the stages
\* the failed run had completed.
C3_RerunsFailedAndAllLater ==
  (prev.failed # 0 /\ NoFlags) =>
    /\ \A k \in Decided :
         /\ k >= prev.failed => k \in Started
         /\ k \in prev.completed => k \in Skipped
    /\ \A i \in DOMAIN trace :
         /\ trace[i].ev = "start" => trace[i].rows = 0
         /\ trace[i].ev = "end" =>
              trace[i].rows = IF trace[i].stage \in TitlingStages THEN NGroups ELSE NRows

\* C4: the stages a run executes start in the order 1..5, each at most once,
\* and a stage starts only after the stage started before it has ended.
C4_StagesInOrder ==
  /\ \A i, j \in DOMAIN trace :
       i < j =>
         \/ trace[i].stage < trace[j].stage
         \/ /\ trace[i].stage = trace[j].stage
            /\ j = i + 1
            /\ trace[i].ev = "start"
            /\ trace[j].ev \in {"end", "fail"}
  /\ \A i \in DOMAIN trace :
       /\ (trace[i].ev = "start" /\ i < Len(trace)) =>
            /\ trace[i + 1].stage = trace[i].stage
            /\ trace[i + 1].ev \in {"end", "fail"}
       /\ trace[i].ev = "fail" => i = Len(trace)
       /\ trace[i].ev \in {"end", "fail"} =>
            i > 1 /\ trace[i - 1] = Ev("start", trace[i].stage, 0)

C4_Witness ==
  /\ Len(trace) = 10
  /\ \A k \in Stages : trace[2 * k - 1].ev = "start" /\ trace[2 * k - 1].stage = k
                       /\ trace[2 * k].ev = "end" /\ trace[2 * k].stage = k

\* C5: a run whose input path is absent or not a string field, or whose
\* input is a function with no output_path, ends in a configuration error
\* with no stage started, the dataset as it was and the task not completed.
C5_ConfigErrorBeforeAnyStage ==
  (/\ cur # 0
   /\ \/ args.input \in {"path_absent", "path_not_string"}
      \/ (args.input = "fn" /\ ~args.output_path))
  => /\ error = "config"
     /\ pc = "idle"
     /\ trace = <<>>
     /\ fields = schema
     /\ ~task_completed

C5_Witness ==
  /\ error = "config"
  /\ args.input = "path_not_string"
  /\ args.task_id
  /\ fields = {TEXT_COLUMN, CLUSTER_ID}

\* C6: a labeler call issues at most 10 requests, issues a further request
\* only after a rate-limit or timeout failure, raises to its caller any other
\* failure without a further request, and terminates.
C6_BoundedRetries ==
  /\ [](attempts <= 10)
  /\ [][(attempts' = attempts + 1 /\ attempts >= 1)
          => lastOutcome \in {"rate_limit", "timeout"}]_vars
  /\ [](lastOutcome = "other" => (lpc = "raised" /\ raised = "other"))
  /\ [](lastOutcome = "ok" => lpc = "returned")
  /\ [](lpc = "waiting" => lastOutcome \in {"rate_limit", "timeout"})
  /\ ((lpc \in {"calling", "waiting"}) ~> (lpc \in {"returned", "raised"}))

C6_Witness ==
  /\ lpc = "raised"
  /\ raised = "RetryError"
  /\ attempts = 10
  /\ lastOutcome = "timeout"

\* C7: when a labeler call fails for good in a titling stage, the run ends
\* there: the stage's output is not written, no later stage is started or
\* skipped, and the task is not marked completed.
C7_LabelerFailureAbortsRun ==
  raised # "none" =>
    /\ pc = "idle"
    /\ error = "labeler"
    /\ cur \in TitlingStages
    /\ trace[Len(trace)] = Ev("fail", cur, progress)
    /\ \A k \in Decided : k <= cur
    /\ cur \notin Ended
    /\ ~task_completed

C7_Witness ==
  /\ raised = "RetryError"
  /\ error = "labeler"
  /\ cur = 3
  /\ trace[Len(trace)] = Ev("fail", 3, 0)
  /\ CLUSTER_TITLE \notin fields
  /\ args.task_id
  /\ lpc = "ready"

\* C8: with remote set, _hdbscan_cluster yields the items of the remote
\* response, one per document, performs no local step and yields no more.
C8_RemoteBypassesLocalSteps ==
  remote =>
    /\ localSteps = {}
    /\ gpc # "raised"
    /\ Len(yielded) <= Len(response)
    /\ yielded = SubSeq(response, 1, Len(yielded))
    /\ gpc # "unstarted" => Len(response) = Len(Densify(rows))
    /\ gpc = "done" => yielded = response

\* C9: after compute_clusters, every row without a text carries cluster_id -1
\* and cluster_membership_prob 0.
C9_SparseRowsAreNoise ==
  cpc = "done" =>
    \A i \in DOMAIN rows :
      rows[i].text = None =>
        /\ CLUSTER_ID \in DOMAIN rowsOut[i]
        /\ rowsOut[i].cluster_id = -1
        /\ rowsOut[i].cluster_membership_prob = 0

\* C10: every row of a group with a negative id gets a null title, and
\* topic_fn is never invoked for such a group.
C10_NegativeGroupsUntitled ==
  /\ \A i \in DOMAIN titles : items[i].id < 0 => titles[i] = NoTitle
  /\ \A k \in DOMAIN calls : items[Groups(items)[calls[k]][1]].id >= 0
  /\ tpc = "done" => Len(titles) = Len(items)

C10_Witness ==
  /\ tpc = "done"
  /\ Len(items) = 3
  /\ items[1].id < 0 /\ items[1].text = "a" /\ items[1].prob = 10
  /\ items[2].id < 0
  /\ titles[3] # NoTitle

\* C11: in a titling stage over rows sorted by group id, the labeler is called
\* exactly once for every group that has a row with non-negative id, nonempty
\* text and nonzero membership, never for another group, and every row of a
\* group receives the single title computed for that group.
C11_OneCallPerNonTrivialGroup ==
  /\ \A k, l \in DOMAIN calls : k # l => calls[k] # calls[l]
  /\ \A k \in DOMAIN calls :
       \E j \in DOMAIN Groups(items)[calls[k]] : Eligible(items[Groups(items)[calls[k]][j]])
  /\ \A i, j \in DOMAIN titles : items[i].id = items[j].id => titles[i] = titles[j]
  /\ tpc = "done" =>
       \A g \in DOMAIN Groups(items) :
         LET nonTrivial == \E j \in DOMAIN Groups(items)[g] : Eligible(items[Groups(items)[g][j]])
         IN /\ nonTrivial <=> \E k \in DOMAIN calls : calls[k] = g
            /\ \A j \in DOMAIN Groups(items)[g] :
                 titles[Groups(items)[g][j]] = IF nonTrivial THEN TitleBy(g) ELSE NoTitle

\* C11 witness: a finished stage over three rows in two groups, a trivial one
\* of one row and a non-trivial one of two rows with one eligible row, with
\* one call made.
C11_Witness ==
  /\ tpc = "done" /\ Len(items) = 3
  /\ items[1].id = 0 /\ ~Eligible(items[1])
  /\ items[2].id = 1 /\ items[3].id = 1
  /\ ~Eligible(items[2]) /\ Eligible(items[3])
  /\ calls = <<2>>
  /\ titles = <<NoTitle, TitleBy(2), TitleBy(2)>>

\* C12: for every completion order of the concurrent per-group tasks, a
\* titling stage emits one output row per input row, in input order, and the
\* title of the i-th row is the title of that row's own group.
C12_RowOrderPreserved ==
  /\ Len(TitledRows) <= Len(items)
  /\ \A i \in DOMAIN TitledRows :
       /\ TitledRows[i].item = items[i]
       /\ GroupOf(items, i) \in DOMAIN tasks
       /\ tasks[GroupOf(items, i)].status = "done"
       /\ TitledRows[i].title = tasks[GroupOf(items, i)].title
  /\ tpc = "done" => Len(TitledRows) = Len(items)

\* C12 witness: two groups whose tasks completed in the reverse of their
\* submission order, every row carrying its own group's title.
C12_Witness ==
  /\ tpc = "done" /\ Len(items) = 3
  /\ items[1].id = 0 /\ items[2].id = 1 /\ items[3].id = 1
  /\ calls = <<2, 1>>
  /\ TitledRows[1].title = TitleBy(1)
  /\ TitledRows[2].title = TitleBy(2)
  /\ TitledRows[3].title = TitleBy(2)

\* C13: after CategoryClustering, any two rows that share the same
\* non-negative leaf cluster_id (and so the same cluster_title) have the same
\* category_id.
C13_SameClusterSameCategory ==
  catpc = "done" =>
    \A i, j \in DOMAIN catOut :
      (catOut[i].cluster_id >= 0 /\ catOut[i].cluster_id = catOut[j].cluster_id)
        => catOut[i].category_id = catOut[j].category_id

\* C15: after any run of cluster_impl that returns successfully, the
\* temporary text field is absent from the cluster output sub-path.
C15_TextDroppedOnCompletion ==
  (pc = "idle" /\ cur = 5 /\ error = "none" /\ Started \cup Skipped = Stages)
    => ~HasField(fields, TEXT_COLUMN)

\* C14: every write of every stage of cluster_impl (the map call and the four
\* transform calls) targets the cluster output sub-path only; when no
\* output_path is supplied that sub-path differs from the input path, so the
\* raw input field and every field outside the sub-path are left unchanged.
C14_WritesOnlyUnderOutputPath ==
  /\ wpc >= 1 => written \subseteq {cluster_output_path}
  /\ (wpc >= 1 /\ output_path = <<>>) =>
       /\ cluster_output_path # input_path
       /\ ~Changed(input_path)
       /\ \A q \in Paths : Changed(q) => IsPrefix(cluster_output_path, q)

\* C14 witness: a run on the wildcard path a.*.b without output_path that
\* has made all its calls, every one at a_b__cluster.
C14_Witness ==
  /\ wpc = 6
  /\ input_path = <<"a", "*", "b">>
  /\ output_path = <<>>
  /\ written = {<<"a_b__cluster">>}

\* C16: for the same dataset state, the same arguments and the same
\* environment, a run of cluster_impl with a task/progress collaborator and a
\* run without one execute the same stages, issue the same dataset writes and
\* end in the same outcome.
C16_TaskDoesNotChangeTheRun ==
  /\ withTask.executed = withoutTask.executed
  /\ withTask.fields = withoutTask.fields
  /\ withTask.error = withoutTask.error

\* C17: the request built by the document-level labeler is made of at most
\* the first 7 entries of the ranked list, that of the category-level labeler
\* of at most the first 15; entries ranked after these never reach the
\* text-generation backend.
C17_RequestFromTopK ==
  lpc # "ready" =>
    LET K == IF labeler = "summarize_request" THEN 7 ELSE 15
    IN /\ Len(request) = IF Len(ranked_docs) < K THEN Len(ranked_docs) ELSE K
       /\ \A i \in DOMAIN request : request[i] = ranked_docs[i]
       /\ \A i \in DOMAIN ranked_docs :
            i > K => \A j \in DOMAIN request : request[j] # ranked_docs[i]

\* C17 witness: the category-level labeler, given 16 ranked titles, has sent
\* a request with the first 15 and got its answer.
C17_Witness ==
  /\ labeler = "generate_category"
  /\ lpc = "returned"
  /\ Len(ranked_docs) = 16
  /\ Len(request) = 15
  /\ attempts = 1

\* C18: for a dataset of total_rows rows and any offset >= 0 and limit >= 0,
\* a non-combined select_rows returns, without error, exactly the rows at
\* positions offset .. offset+limit-1 that exist, in dataset order:
\* min(limit, total_rows - offset) rows when offset < total_rows, none
\* otherwise.
C18_LimitOffsetWindow ==
  /\ selpc \in {"reading", "done"}
  /\ selpc = "done" =>
       LET n == IF selOffset < selTotal
                  THEN (IF selLimit < selTotal - selOffset THEN selLimit
                        ELSE selTotal - selOffset)
                  ELSE 0
       IN /\ Len(selOut) = n
          /\ \A i \in 1..n : selOut[i] = RowAt(selOffset + i - 1)

\* C18 witness: select_rows([UUID_COLUMN], offset=9, limit=200) on the ten
\* rows '10'..'19' has returned the single row '19'.
C18_Witness ==
  /\ selpc = "done"
  /\ selTotal = 10
  /\ selOffset = 9
  /\ selLimit = 200
  /\ selOut = <<19>>

\* C19: with combine_columns=True, selecting ['*'] returns exactly the
\* original items at any nesting depth, and adding to '*' a redundant
\* top-level field or a nested child of a top-level field still returns
\* exactly the original items, with no parent or child duplicated.
C19_StarCombineIsIdentity ==
  (cmbpc = "done" /\ cmbRequest[1] = <<PATH_WILDCARD>>) => cmbOut = cmbItem

\* C19 witness: select_rows(['*', ('info', 'age')], combine_columns=True) on
\* a row whose info has two children has returned the row.
C19_Witness ==
  /\ cmbpc = "done"
  /\ cmbRequest = <<<<PATH_WILDCARD>>, <<"info", "age">>>>
  /\ DOMAIN cmbItem.fields = {"name", "info"}
  /\ cmbItem.fields["info"].kind = "rec"
  /\ DOMAIN cmbItem.fields["info"].fields = {"age", "zip"}
  /\ cmbOut = cmbItem

\* C20: a dotted-string alias produced by the Path Resolver for a
\* canonical path, when parsed again as a dotted path, yields the identical
\* canonical path, including for parts that contain a dot or a quote.
C20_AliasRoundTrip ==
  apc = "done" => reparsed = canonical

\* C21: select_rows fails at the call, with no row yielded, when a part of
\* a requested path is absent from the schema, with the path-not-found error
\* naming that part, and with the distinct repeated-field-index error when
\* the part is a concrete index under a repeated field; it fails for no
\* other request.
C21_InvalidPathRaisesAtCall ==
  flpc # "call" /\ flRequest # <<>> =>
    LET valid == SchemaPaths(FlatSchema) \cup {<<PATH_WILDCARD>>}
        bad == {i \in DOMAIN flRequest : flRequest[i] \notin valid}
    IN IF bad = {}
         THEN flpc # "raised" /\ flError.kind = "none"
         ELSE LET c == flRequest[CHOOSE i \in bad : \A j \in bad : i <= j]
                  k == CHOOSE n \in DOMAIN c :
                         /\ SubSeq(c, 1, n) \notin SchemaPaths(FlatSchema)
                         /\ \A m \in 1..(n - 1) : SubSeq(c, 1, m) \in SchemaPaths(FlatSchema)
                  underRepeated ==
                    (SubSeq(c, 1, k - 1) \o <<PATH_WILDCARD>>) \in SchemaPaths(FlatSchema)
              IN /\ flpc = "raised"
                 /\ flOut = <<>>
                 /\ flError.part = c[k]
                 /\ flError.kind = IF underRepeated /\ c[k] \in IndexParts
                                     THEN "repeated_index" ELSE "path_not_found"

\* C21 witness: ('text2', '4', 'len') has raised the repeated-field-index
\* error naming '4', with no row yielded.
C21_Witness ==
  /\ flpc = "raised"
  /\ flRequest = <<<<"text2", "4", "len">>>>
  /\ flError = [kind |-> "repeated_index", part |-> "4"]
  /\ flOut = <<>>

\* C22: without combine_columns the keys of a row are pairwise distinct and
\* every column has its own key with its own value: the star gives every
\* top-level field, a nested path next to the star comes out under its
\* dotted alias, and the n-th column with one alias (n >= 2, in request
\* order) under that alias with the suffix _n.
C22_FlatKeysDistinct ==
  flpc \in {"rows", "done"} =>
    LET Nth(i) == Cardinality({j \in 1..i : FlatAlias(flCols[j].path) = FlatAlias(flCols[i].path)})
    IN /\ \A i, j \in DOMAIN flCols : i # j => flCols[i].key # flCols[j].key
       /\ \A i \in DOMAIN flCols :
            flCols[i].key = IF Nth(i) = 1 THEN FlatAlias(flCols[i].path)
                            ELSE FlatAlias(flCols[i].path) \o Suffixes[Nth(i) - 1]
       /\ \A i \in DOMAIN flRequest :
            IF flRequest[i] = <<PATH_WILDCARD>>
              THEN \A f \in DOMAIN FlatSchema.fields :
                     \E n \in DOMAIN flCols : flCols[n].path = <<f>>
              ELSE Cardinality({n \in DOMAIN flCols : flCols[n].path = flRequest[i]})
                     >= Cardinality({j \in DOMAIN flRequest : flRequest[j] = flRequest[i]})
       /\ \A r \in DOMAIN flOut :
            /\ Cardinality(DOMAIN flOut[r]) = Len(flCols)
            /\ \A i \in DOMAIN flCols :
                 /\ flCols[i].key \in DOMAIN flOut[r]
                 /\ flOut[r][flCols[i].key] = [row |-> r, at |-> flCols[i].path]

\* C22 witness: select_rows(['*', 'info', ('info', 'age')]) has yielded its
\* rows with the keys name, info, text2, info_2 and info.age.
C22_Witness ==
  /\ flpc = "done"
  /\ flRequest = <<<<PATH_WILDCARD>>, <<"info">>, <<"info", "age">>>>
  /\ DOMAIN flOut[1] = {"name", "info", "text2", "info_2", "info.age"}
  /\ flOut[1]["info_2"].at = <<"info">>
  /\ flOut[1]["info.age"].at = <<"info", "age">>

\* C23: with combine_columns the row is told by the row read, the paths
\* requested and the signals computed, with no alias in it: its leaves are
\* the leaves of the row read under a requested path, each with its value, and
\* the output of a signal under the path it is computed over; no key of it
\* is an alias of the request; and a text requested both as a column and
\* through the signal over it is there once, its fields the value key and
\* the signal's name, side by side.
C23_CombineIgnoresAliases ==
  mgpc = "done" /\ mgItem # <<>> =>
    LET NodeAt(tree, p) ==
          LET W[i \in 0..Len(p)] == IF i = 0 THEN tree ELSE W[i - 1].fields[p[i]]
          IN W[Len(p)]
        LeavesOf(tree) == {p \in TreePaths(tree) : NodeAt(tree, p).kind = "leaf"}
        Under(a, q) == Len(a) <= Len(q) /\ SubSeq(q, 1, Len(a)) = a
        plain == {mgRequest[i].path : i \in {j \in DOMAIN mgRequest : ~mgRequest[j].udf}}
        signals == {mgRequest[i].path \o <<"length_signal">> :
                      i \in {j \in DOMAIN mgRequest : mgRequest[j].udf}}
        aliases == {mgRequest[i].alias : i \in DOMAIN mgRequest} \ {NoAlias}
        read == {q \in LeavesOf(mgItem) : \E a \in plain : Under(a, q)}
        out == LeavesOf(mgOut)
    IN /\ \A q \in read :
            \E r \in {q, q \o <<VALUE_KEY>>} :
              r \in out /\ NodeAt(mgOut, r) = NodeAt(mgItem, q)
       /\ \A q \in signals : q \in out /\ NodeAt(mgOut, q) = Leaf(5)
       /\ \A r \in out :
            \/ r \in signals
            \/ \E q \in read :
                 r \in {q, q \o <<VALUE_KEY>>} /\ NodeAt(mgOut, r) = NodeAt(mgItem, q)
       /\ \A r \in TreePaths(mgOut) : \A i \in DOMAIN r : r[i] \notin aliases
       /\ (<<"text">> \in plain /\ signals # {} /\ mgItem.fields["text"].kind = "leaf")
            => /\ DOMAIN mgOut.fields["text"].fields = {VALUE_KEY, "length_signal"}
               /\ mgOut.fields["text"].fields[VALUE_KEY] = mgItem.fields["text"]

\* C23 witness: select_rows(['text', Column('text', alias='ignored',
\* signal_udf=LengthSignal())], combine_columns=True) on a plain text has
\* given the text as one structure, the value and length_signal side by side.
C23_Witness ==
  /\ mgpc = "done"
  /\ mgItem = Rec([text |-> Leaf("hello")])
  /\ mgRequest = <<[path |-> <<"text">>, alias |-> NoAlias, udf |-> FALSE],
                   [path |-> <<"text">>, alias |-> "ignored", udf |-> TRUE]>>
  /\ mgOut = Rec([text |-> Rec((VALUE_KEY :> Leaf("hello")) @@ [length_signal |-> Leaf(5)])])
  /\ mgPlain = mgOut

\* C24: the document list handed to the labeler for a group has no two
\* entries with the same text.
C24_NoDuplicateTexts ==
  \A g \in DOMAIN tasks :
    \A i, j \in DOMAIN tasks[g].docs :
      i # j => tasks[g].docs[i][1] # tasks[g].docs[j][1]

\* C25: the document list handed to the labeler for a group is in
\* non-increasing order of membership probability, and each of its entries
\* is the (text, probability) pair of a row of that group whose id is not
\* negative, whose text is not empty and whose probability is not zero.
C25_DocsRankedAndEligible ==
  \A g \in DOMAIN tasks :
    LET docs == tasks[g].docs
        group == Groups(items)[g]
    IN /\ \A i, j \in DOMAIN docs : i < j => docs[i][2] >= docs[j][2]
       /\ \A i \in DOMAIN docs :
            \E k \in DOMAIN group :
              LET item == items[group[k]]
              IN /\ docs[i] = <<item.text, item.prob>>
                 /\ item.id >= 0
                 /\ item.text # ""
                 /\ item.prob # 0

\* C25 witness: a group of three rows, one of them with zero membership, has
\* had its two documents handed to the labeler, the more probable first.
C25_Witness ==
  \E g \in DOMAIN tasks :
    /\ tasks[g].size = 3
    /\ Len(tasks[g].docs) = 2
    /\ tasks[g].docs[1][2] > tasks[g].docs[2][2]
    /\ \E c \in DOMAIN calls : calls[c] = g
    /\ \E k \in DOMAIN items : items[k].prob = 0

\* C26: when the fit has a noise point and a point that is not noise, every
\* noise point ends with the argmax of its own soft membership vector as
\* its cluster id and the maximum of that vector as its probability, in
\* whichever batch it is, and no cluster id -1 is left.
C26_NoiseTakesOwnArgMax ==
  nzpc = "done" /\ nzOut # <<>> =>
    LET n == Len(nzFit.labels)
        noise == {i \in 1..n : nzFit.labels[i] = -1}
        c == Cardinality({nzFit.labels[i] : i \in 1..n} \ {-1})
    IN (noise # {} /\ noise # 1..n) =>
         /\ \A i \in 1..n : nzOut.labels[i] # -1
         /\ \A i \in noise :
              /\ nzOut.labels[i] \in 0..(c - 1)
              /\ \A k \in 0..(c - 1) : nzSoft[i][k] <= nzSoft[i][nzOut.labels[i]]
              /\ \A k \in 0..(nzOut.labels[i] - 1) : nzSoft[i][k] < nzSoft[i][nzOut.labels[i]]
              /\ nzOut.probs[i] = nzSoft[i][nzOut.labels[i]]

\* C26 witness: two noise points in two batches of one, with different soft
\* memberships, have each taken their own.
C26_Witness ==
  /\ nzpc = "done"
  /\ nzBatch = 1
  /\ nzFit.labels = <<-1, 0, -1>>
  /\ nzSoft[1][0] = 5
  /\ nzSoft[3][0] = 10
  /\ nzOut.labels = <<0, 0, 0>>
  /\ nzOut.probs[1] = 5
  /\ nzOut.probs[3] = 10

\* C27: the reassignment leaves the cluster id and the probability of every
\* point that is not noise as they were, and leaves every point as it was
\* when no point or every point is noise.
C27_NonNoiseUntouched ==
  nzpc = "done" /\ nzOut # <<>> =>
    LET n == Len(nzFit.labels)
        noise == {i \in 1..n : nzFit.labels[i] = -1}
    IN /\ Len(nzOut.labels) = n
       /\ Len(nzOut.probs) = n
       /\ \A i \in (1..n) \ noise :
            /\ nzOut.labels[i] = nzFit.labels[i]
            /\ nzOut.probs[i] = nzFit.probs[i]
       /\ (noise = {} \/ noise = 1..n) => nzOut = nzFit

\* C27 witness: a fit with one noise point between two clustered points of
\* probability 5 has been reassigned, the two points as they were.
C27_Witness ==
  /\ nzpc = "done"
  /\ nzFit.labels = <<0, -1, 1>>
  /\ nzFit.probs = <<5, 0, 5>>
  /\ nzOut.labels[2] = 1
  /\ nzOut.probs = <<5, 10, 5>>

C29_UntitledRowsGetSentinels ==
  \A i \in DOMAIN catOut :
    /\ CATEGORY_ID \in DOMAIN catOut[i]
    /\ CATEGORY_MEMBERSHIP_PROB \in DOMAIN catOut[i]
    /\ catRows[i].cluster_title = NoTitle =>
         /\ catOut[i].category_id = -1
         /\ catOut[i].category_membership_prob = 0

\* C29 witness: the category clustering has finished on rows of which the
\* first has a title and a category and the second has neither.
C29_Witness ==
  /\ catpc = "done"
  /\ Len(catOut) >= 2
  /\ catRows[1].cluster_title # NoTitle
  /\ catOut[1].category_id = 0
  /\ catRows[2].cluster_title = NoTitle
  /\ catOut[2].category_id = -1
  /\ catOut[2].category_membership_prob = 0

\* C30: for N >= 1 vectors the density clustering is built once, with the
\* smaller of the configured minimum size and N as its minimum cluster size
\* and one less as its minimum samples; the reduction is built if and only
\* if 5 is below both the dimension of the embedding and N, and then with
\* min(30, N - 1) neighbours, a number from 5 to 30.
C30_ClusteringParameters ==
  pmpc = "done" /\ pmCalls # <<>> =>
    LET N == pmN
        fits == {i \in DOMAIN pmCalls : pmCalls[i].fn = "HDBSCAN"}
        reductions == {i \in DOMAIN pmCalls : pmCalls[i].fn = "UMAP"}
        size == pmCalls[Len(pmCalls)].min_cluster_size
    IN /\ fits = {Len(pmCalls)}
       /\ size = IF pmMinSize <= N THEN pmMinSize ELSE N
       /\ pmCalls[Len(pmCalls)].min_samples = size - 1
       /\ Cardinality(reductions) <= 1
       /\ (reductions # {}) <=> (5 < pmDim /\ 5 < N)
       /\ \A i \in reductions :
            /\ pmCalls[i].n_neighbors = IF N - 1 < 30 THEN N - 1 ELSE 30
            /\ pmCalls[i].n_neighbors >= 5
            /\ pmCalls[i].n_neighbors <= 30

\* C30 witness: 31 vectors of dimension 512 with the minimum size 5 have
\* been reduced with 30 neighbours and clustered with minimum size 5 and
\* minimum samples 4.
C30_Witness ==
  /\ pmpc = "done"
  /\ pmN = 31
  /\ pmDim = 512
  /\ pmMinSize = 5
  /\ pmCalls = <<[fn |-> "UMAP", n_components |-> 5, n_neighbors |-> 30],
                 [fn |-> "HDBSCAN", min_cluster_size |-> 5, min_samples |-> 4]>>

\* C31: the snippet of a document is the document without the whitespace at
\* its ends when that has at most 400 characters, and otherwise its first
\* 200 characters, the marker '\n...\n' and its last 200 characters; it
\* never has more than 405 characters.
C31_SnippetPrefixAndSuffix ==
  snpc = "done" =>
    LET stripped == SubSeq(snText, snLead + 1, Len(snText) - snTrail)
        n == Len(stripped)
    IN /\ Len(snOut) <= 405
       /\ IF n <= 400
            THEN snOut = stripped
            ELSE /\ Len(snOut) = 405
                 /\ \A i \in 1..200 : snOut[i] = stripped[i]
                 /\ \A i \in 1..5 : snOut[200 + i] = <<10, 46, 46, 46, 10>>[i]
                 /\ \A i \in 1..200 : snOut[205 + i] = stripped[n - 200 + i]

\* C31 witness: a document of 401 characters between whitespace has been
\* cut to 405: its characters 1 to 200, the marker, its characters 202 to
\* 401.
C31_Witness ==
  /\ snpc = "done"
  /\ snLead = 1
  /\ snTrail = 2
  /\ Len(snText) = 404
  /\ Len(snOut) = 405
  /\ snOut[200] = 1200
  /\ snOut[206] = 1202
  /\ snOut[405] = 1401

\* C32: without output_path the cluster output path has no wildcard part,
\* its parent is the input path up to, and without, the last part before
\* the first wildcard (the last part when there is no wildcard), and its
\* last part is the parts from there on that are no wildcard, joined by '_',
\* followed by '__cluster'; an output_path given is taken as it is.
C32_DerivedOutputPath ==
  wpc >= 1 =>
    IF output_path # <<>> THEN cluster_output_path = output_path
    ELSE LET p == input_path
             wild == {i \in DOMAIN p : p[i] = PATH_WILDCARD}
             last == IF wild = {} THEN Len(p)
                     ELSE (CHOOSE i \in wild : \A j \in wild : i <= j) - 1
             from == IF last = 0 THEN 1 ELSE last
             out == cluster_output_path
         IN /\ \A i \in DOMAIN out : out[i] # PATH_WILDCARD
            /\ Len(out) = from
            /\ SubSeq(out, 1, from - 1) = SubSeq(p, 1, from - 1)
            /\ out[from] =
                 JoinParts(SelectSeq(SubSeq(p, from, Len(p)),
                                     LAMBDA x : x # PATH_WILDCARD)) \o "__cluster"

\* C32 witness: the path a.b.* without output_path has given a.b__cluster.
C32_Witness ==
  /\ wpc = 1
  /\ input_path = <<"a", "b", PATH_WILDCARD>>
  /\ output_path = <<>>
  /\ cluster_output_path = <<"a", "b__cluster">>

\* C33: in every run of cluster_impl, whatever the runs before it, once a
\* stage has been executed no later stage is skipped, so that no output
\* kept is older than the output it was computed from.
C33_ExecutedStageRunsAllLater ==
  \A i \in DOMAIN trace : \A j \in DOMAIN trace :
    (i < j /\ trace[i].ev = "start") => trace[j].ev # "skip"

====
